---- MODULE Spec2Model ----
(***************************************************************************)
(* Verification model of the agentify backend:                             *)
(*   - AutonomousAgent.chat step loop        (agents/third_agent.py)       *)
(*   - AIResearcherAgent research pipeline   (fourthagent/ai-researcher-   *)
(*                                            improved.py)                 *)
(*   - SecureToolRegistry / POST /agents/{id}/tools                         *)
(*                                (security/tool_registry.py, main.py)     *)
(*   - blog store CRUD and pagination (api/blog_routes.py, database.py)    *)
(*   - render_latex_pdf                  (fourthagent/write-pdf.py)        *)
(*   - agent endpoints and stream_text_response (main.py)                  *)
(* Each subsystem has its own specification (SpecChat, SpecChatSteps,      *)
(* SpecResearch, SpecRender, SpecTools, SpecAgents, SpecBlog,              *)
(* SpecBlogList, SpecStream); the variables of the other subsystems stay   *)
(* at their initial values.                                                *)
(***************************************************************************)
EXTENDS Integers, Sequences, FiniteSets, TLC

VARIABLES
    \* ---- AutonomousAgent (third_agent.py)
    goal,           \* user_input of the running chat (keyword features)
    step_history,   \* self.step_history
    step_count,     \* local step_count of chat
    chat_pc,        \* "idle" | "loop" | "done"
    chat_ret,       \* value returned by chat
    llm_calls,      \* _get_next_action requests made by the running chat
    last_step,      \* what the last loop iteration received and executed
    \* ---- AIResearcherAgent (ai-researcher-improved.py)
    max_api_calls,  \* self.max_api_calls
    api_call_count, \* self.api_call_count
    rstate,         \* the ResearchState threaded through the workflow
    r_pc,           \* "new" | "idle" | node about to run | "end"
    r_trace,        \* nodes run by the current research() invocation
    r_result,       \* dict returned by research()
    r_base,         \* api_call_count when the current research() was entered
    last_retry,     \* the last direct _retry_with_backoff call and its outcome
    r_runs,         \* research() invocations started on this agent
    \* ---- SecureToolRegistry and agent stores (tool_registry.py, main.py)
    tools,          \* secure_tool_registry.tools
    agents_store,   \* agents_store (agent id -> agent object)
    agent_metadata, \* agent_metadata (agent id -> owner_id, tools, ...)
    uuids_used,     \* uuid4 values handed out so far
    execd,          \* submissions handed to exec()
    started,        \* lifespan startup has run
    last_reg,       \* outcome of the last POST /agents/{id}/tools
    last_req,       \* outcome of the last agent request (create, get, chat, ...)
    deleted,        \* agent ids whose DELETE request succeeded
    \* ---- stream_text_response (main.py)
    st_response,    \* the response text being streamed (a sequence of characters)
    st_words,       \* words = response.split()
    st_i,           \* loop variable i of the chunk loop
    st_events,      \* events yielded so far, in order
    st_pc,          \* "idle" | "loop" | "done"
    sse,            \* the event stream of the last POST /agents/{id}/chat/stream
    \* ---- blog store (blog_routes.py)
    blogs_store,    \* blogs_store (id -> post)
    next_blog_id,   \* next_blog_id
    clock,          \* datetime.utcnow(), a logical clock
    last_list,      \* last response of get_blog_posts
    creating,       \* create_blog_post requests by request number
    \* ---- render_latex_pdf (write-pdf.py)
    out_files,      \* files present in the output directory
    render_now,     \* datetime.now() to the second, a logical clock
    last_render     \* what the last render_latex_pdf call did and returned

chatVars == <<goal, step_history, step_count, chat_pc, chat_ret, llm_calls, last_step>>
researchVars ==
    <<max_api_calls, api_call_count, rstate, r_pc, r_trace, r_result, r_runs, last_retry,
      r_base>>
toolVars == <<tools, agents_store, agent_metadata, uuids_used, execd, started, last_reg>>
blogVars == <<blogs_store, next_blog_id, clock, last_list, creating>>
renderVars == <<out_files, render_now, last_render>>
reqVars == <<last_req, deleted>>
streamVars == <<st_response, st_words, st_i, st_events, st_pc, sse>>
vars == <<chatVars, researchVars, toolVars, blogVars, renderVars, reqVars, streamVars>>

\* what a step of one subsystem leaves alone
notChat == <<researchVars, toolVars, blogVars, renderVars, reqVars, streamVars>>
notResearchAgent == <<chatVars, toolVars, blogVars, renderVars, reqVars, streamVars>>
notResearch == <<notResearchAgent, last_retry, r_base>>
notAgents == <<chatVars, researchVars, blogVars, renderVars, streamVars>>
notTools == <<notAgents, reqVars>>
notBlogStore == <<chatVars, researchVars, toolVars, renderVars, reqVars, streamVars>>
notBlog == <<notBlogStore, creating>>
notRender == <<chatVars, researchVars, toolVars, blogVars, reqVars, streamVars>>
notStreamText == <<chatVars, researchVars, toolVars, blogVars, renderVars, reqVars>>
notStream == <<notStreamText, sse>>
notSse == <<notStreamText, st_response, st_words, st_i, st_events, st_pc>>

None == "None"

(***************************************************************************)
(* AutonomousAgent                                                         *)
(***************************************************************************)

\* while step_count < max_steps (third_agent.py:221)
max_steps == 8

\* tool failures modelled per chat (each failure is caught inside
\* _execute_simulated_action)
MaxToolFailures == 1
\* responses per chat whose action is neither a tool nor "none"
MaxUnknownActions == 1

\* keys of self.simulated_tools
SimulatedTools ==
    {"search_web", "get_weather", "analyze_weather", "check_air_quality",
     "get_time", "search_news"}

\* A goal is described by the keyword families its lower-cased text contains:
\*   w4    one of weather/temperature/climate/forecast
\*   wx    one of rain/snow/wind/humid
\*   news  one of news/headlines/current events
\*   time  time or clock
\*   air   one of air quality/pollution/aqi/smog
\*   det   one of detailed/detail/comprehensive/explain/explaining
MkGoal(w4, wx, news, time, air, det) ==
    [w4 |-> w4, wx |-> wx, news |-> news, time |-> time, air |-> air, det |-> det]

Goals ==
    { MkGoal(FALSE, FALSE, FALSE, FALSE, FALSE, TRUE),    \* "explain petrol price"
      MkGoal(FALSE, FALSE, FALSE, TRUE,  FALSE, FALSE) }  \* "what time is it"

NoGoal == MkGoal(FALSE, FALSE, FALSE, FALSE, FALSE, FALSE)

\* a comparison of the Goal Completed field that keeps its case
LowerExact(s) == s

\* str.lower() on the Goal Completed field
Lower(s) ==
    CASE s = "YES" -> "yes"
      [] s = "Yes" -> "yes"
      [] s = "NO" -> "no"
      [] OTHER -> s

\* parsed responses of _parse_agent_response: the action text, the
\* Goal Completed text, and whether a Final Answer was matched
ActionTexts == {"search_web", "get_weather", "get_time", "none", "fly_to_moon"}
CompletedTexts == {"yes", "YES", "no", "maybe"}
FinalAnswers == {"absent", "short"}
Responses ==
    [action : ActionTexts, goal_completed : CompletedTexts, final_answer : FinalAnswers]

validate_action_choice(action, g, hist) ==
    IF action \in {"get_weather", "analyze_weather"}
    THEN LET has_weather_keywords == g.w4 \/ g.wx
             has_previous_weather ==
                 \E i \in 1..Len(hist) : hist[i].action = "get_weather"
         IN IF action = "analyze_weather"
            THEN has_weather_keywords /\ has_previous_weather
            ELSE has_weather_keywords
    ELSE IF action = "check_air_quality" THEN g.air
    ELSE IF action = "get_time" THEN g.time
    ELSE TRUE

\* a correction that answers weather goals with the analysis tool
get_correct_action_analysis(g) ==
    IF g.w4 THEN "analyze_weather"
    ELSE IF g.news THEN "search_news"
    ELSE IF g.time THEN "get_time"
    ELSE IF g.air THEN "check_air_quality"
    ELSE "search_web"

get_correct_action(g) ==
    IF g.w4 THEN "get_weather"
    ELSE IF g.news THEN "search_news"
    ELSE IF g.time THEN "get_time"
    ELSE IF g.air THEN "check_air_quality"
    ELSE "search_web"

\* results of _execute_simulated_action: the tool's text, or the text
\* "Tool <name> execution failed: ..." when the tool raised
ToolFailuresIn(hist) ==
    Cardinality({i \in 1..Len(hist) : hist[i].result = "tool_failed_text"})

ToolOutcomes(hist) ==
    IF ToolFailuresIn(hist) < MaxToolFailures
    THEN {"tool_text", "tool_failed_text"}
    ELSE {"tool_text"}

\* a forced-completion test that looks for search_web only
SearchActionsWebOnly == {"search_web"}

SearchActions == {"search_web", "search_news"}

\* search_results = [s["result"] for s in step_history if s["action"] in
\*                   ["search_web", "search_news"] and s["result"]]
SearchResults(hist) ==
    SelectSeq(hist, LAMBDA s : s.action \in SearchActions /\ s.result # None)

\* the structured response built around basic_answer and search_results[0]
DetailedResponse(basic) ==
    CASE basic = "final_answer" -> "detailed_final_answer"
      [] basic = "goal_completed_default" -> "detailed_goal_completed_default"
      [] OTHER -> "detailed_based_on_search_results"

\* enhance_detailed_response(basic_answer, user_query)
enhance_detailed_response(basic, hist) ==
    IF SearchResults(hist) = <<>> THEN basic
    ELSE IF basic = "long_final_answer" THEN basic
    ELSE DetailedResponse(basic)

\* a step that executes whatever registered tool was proposed
ToolToExecuteUnchecked(action, g, hist) ==
    IF action # "none" /\ action \in SimulatedTools THEN action ELSE None

\* the tool executed for a proposed action (third_agent.py:255-268)
ToolToExecute(action, g, hist) ==
    IF action # "none" /\ action \in SimulatedTools
    THEN IF validate_action_choice(action, g, hist)
         THEN action
         ELSE get_correct_action(g)
    ELSE None

\* last_step before the first iteration of a chat
NoResp == [action |-> "none", goal_completed |-> "no", final_answer |-> "absent"]
NoStep == [kind |-> "none", resp |-> NoResp, ran |-> <<>>]

\* chat(user_input): clear step_history and enter the loop
ChatStart(g) ==
    /\ chat_pc \in {"idle", "done"}
    /\ last_step' = NoStep
    /\ goal' = g
    /\ step_history' = <<>>
    /\ step_count' = 0
    /\ chat_pc' = "loop"
    /\ chat_ret' = None
    /\ llm_calls' = 0
    /\ UNCHANGED notChat

\* a loop condition that admits one iteration too many
LoopGuardInclusive(n) == n <= max_steps

\* the loop condition (third_agent.py:224)
LoopGuard(n) == n < max_steps

\* an iteration that records the failed request as a step
StepHistoryAfterLLMFailRecorded(hist, n) ==
    Append(hist, [step |-> n, action |-> "none", result |-> None])

\* step_history after an iteration whose request failed: the return at
\* third_agent.py:232 precedes the append at line 270
StepHistoryAfterLLMFail(hist, n) == hist

\* one iteration whose _get_next_action call failed (returned None or "")
ChatLLMFail ==
    /\ chat_pc = "loop"
    /\ LoopGuard(step_count)
    /\ step_count' = step_count + 1
    /\ llm_calls' = llm_calls + 1
    /\ chat_pc' = "done"
    /\ chat_ret' = "error_thinking"
    /\ step_history' = StepHistoryAfterLLMFail(step_history, step_count + 1)
    /\ last_step' = [kind |-> "llm_failed", resp |-> NoResp, ran |-> <<>>]
    /\ UNCHANGED goal
    /\ UNCHANGED notChat

\* the value chat returns at the end of an iteration, or None to loop again
StepReturn(resp, hist, g, analysis_ok) ==
    IF Lower(resp.goal_completed) = "yes"
    THEN LET final_answer ==
                 CASE resp.final_answer = "absent" -> "goal_completed_default"
                   [] resp.final_answer = "short" -> "final_answer"
                   [] OTHER -> "long_final_answer"
         IN IF g.det THEN enhance_detailed_response(final_answer, hist)
            ELSE final_answer
    ELSE IF \E i \in 1..Len(hist) : hist[i].action \in SearchActions
    THEN IF SearchResults(hist) # <<>>
         THEN IF analysis_ok THEN "llm_analysis"
              ELSE enhance_detailed_response("based_on_search_results", hist)
         ELSE None
    ELSE None

\* a step that calls a failed tool a second time
ToolRunsRetried(tool, outcome) ==
    IF tool = None THEN <<>>
    ELSE IF outcome = "tool_failed_text" THEN <<tool, tool>>
    ELSE <<tool>>

\* the _execute_simulated_action calls of one iteration, in order
ToolRuns(tool, outcome) ==
    IF tool = None THEN <<>> ELSE <<tool>>

\* the state changes of one iteration with a parsed response
\* (third_agent.py:225-292)
ChatIteration(resp, outcome, analysis_ok) ==
    /\ chat_pc = "loop"
    /\ LoopGuard(step_count)
    /\ outcome \in ToolOutcomes(step_history)
    /\ LET tool == ToolToExecute(resp.action, goal, step_history)
           step_info ==
               [step |-> step_count + 1,
                action |-> IF tool = None THEN resp.action ELSE tool,
                result |-> IF tool = None THEN None ELSE outcome]
           hist == Append(step_history, step_info)
           ret == StepReturn(resp, hist, goal, analysis_ok)
       IN /\ step_count' = step_count + 1
          /\ llm_calls' = llm_calls + 1
          /\ step_history' = hist
          /\ IF ret = None
             THEN chat_pc' = "loop" /\ chat_ret' = None
             ELSE chat_pc' = "done" /\ chat_ret' = ret
    /\ UNCHANGED goal
    /\ UNCHANGED notChat

\* one iteration with a parsed response
ChatStep(resp, outcome, analysis_ok) ==
    /\ ChatIteration(resp, outcome, analysis_ok)
    /\ UNCHANGED last_step

\* one iteration with a parsed response, with the response and the tool
\* calls of the iteration kept in last_step
ChatStepTraced(resp, outcome, analysis_ok) ==
    /\ ChatIteration(resp, outcome, analysis_ok)
    /\ last_step' =
          [kind |-> "parsed", resp |-> resp,
           ran |-> ToolRuns(ToolToExecute(resp.action, goal, step_history), outcome)]

\* the loop ran out of steps (third_agent.py:294)
ChatMaxSteps ==
    /\ chat_pc = "loop"
    /\ ~LoopGuard(step_count)
    /\ chat_pc' = "done"
    /\ chat_ret' = "max_steps_message"
    /\ UNCHANGED <<goal, step_history, step_count, llm_calls, last_step>>
    /\ UNCHANGED notChat

InitChat ==
    /\ goal = NoGoal
    /\ step_history = <<>>
    /\ step_count = 0
    /\ chat_pc = "idle"
    /\ chat_ret = None
    /\ llm_calls = 0
    /\ last_step = NoStep

\* the responses the LLM may give next
UnknownActionsIn(hist) ==
    Cardinality({i \in 1..Len(hist) : hist[i].action \notin SimulatedTools \cup {"none"}})

ResponsesFor(hist) ==
    IF UnknownActionsIn(hist) < MaxUnknownActions
    THEN Responses
    ELSE {r \in Responses : r.action \in SimulatedTools \cup {"none"}}

\* the tool outcome and the outcome of _analyze_search_results_with_llm are
\* drawn only for the steps that consume them
OutcomesFor(resp) ==
    IF ToolToExecute(resp.action, goal, step_history) = None
    THEN {"tool_text"} ELSE ToolOutcomes(step_history)

AnalysesFor(resp) ==
    IF ToolToExecute(resp.action, goal, step_history) \in SearchActions
       /\ Lower(resp.goal_completed) # "yes"
    THEN BOOLEAN ELSE {TRUE}

NextChat ==
    \/ \E g \in Goals : ChatStart(g)
    \/ ChatLLMFail
    \/ \E resp \in ResponsesFor(step_history) : \E outcome \in OutcomesFor(resp),
          analysis_ok \in AnalysesFor(resp) : ChatStep(resp, outcome, analysis_ok)
    \/ ChatMaxSteps

\* Chats followed step by step: goals with weather, time and news keywords,
\* responses that propose every kind of tool, and "yes" in both cases.
\* steps per chat whose recorded action is not the goal's own tool
MaxOffScript == 1

TracedGoals ==
    { MkGoal(TRUE,  FALSE, FALSE, FALSE, FALSE, TRUE),    \* "explain the weather forecast"
      MkGoal(FALSE, FALSE, FALSE, TRUE,  FALSE, FALSE),   \* "what time is it"
      MkGoal(FALSE, FALSE, TRUE,  FALSE, FALSE, FALSE) }  \* "today's headlines"

TracedResponses ==
    [action : {"get_weather", "analyze_weather", "get_time", "search_web", "none"},
     goal_completed : {"yes", "YES", "no"},
     final_answer : FinalAnswers]

OffScriptIn(hist, g) ==
    Cardinality({i \in 1..Len(hist) : hist[i].action # get_correct_action(g)})

TracedResponsesFor(hist, g) ==
    IF OffScriptIn(hist, g) < MaxOffScript
    THEN TracedResponses
    ELSE {r \in TracedResponses :
             ToolToExecute(r.action, g, hist) = get_correct_action(g)}

NextChatSteps ==
    \/ \E g \in TracedGoals : ChatStart(g)
    \/ ChatLLMFail
    \/ \E resp \in TracedResponsesFor(step_history, goal) :
          \E outcome \in OutcomesFor(resp), analysis_ok \in AnalysesFor(resp) :
             ChatStepTraced(resp, outcome, analysis_ok)
    \/ ChatMaxSteps

(***************************************************************************)
(* AIResearcherAgent                                                       *)
(***************************************************************************)

\* _retry_with_backoff(..., max_retries=5, ...) (ai-researcher-improved.py:300)
max_retries == 5
\* AIResearcherAgent(max_papers=2) (ai-researcher-improved.py:264)
max_papers == 2

\* largest max_api_calls an agent is constructed with
MaxApiCalls == 5
\* research() invocations on one agent
MaxRuns == 2
\* entries returned by one arXiv search
MaxEntries == 3

\* per-attempt outcomes of the wrapped function: k ResourceExhausted
\* failures followed by a success or another exception
Pattern(k, final) ==
    [i \in 1..max_retries |-> IF i <= k THEN "exhausted" ELSE final]
ExhaustedRuns == {0, 2, max_retries}
CallPatterns == {Pattern(k, f) : k \in ExhaustedRuns, f \in {"ok", "error"}}

\* the loop of _retry_with_backoff from iteration `attempt` on; result is
\* "ok" or the exception raised
RECURSIVE RetryFrom(_, _, _, _)
RetryFrom(attempt, count, limit, outs) ==
    IF attempt >= max_retries
    THEN [count |-> count, result |-> "max_retries_reached", attempts |-> attempt]
    ELSE IF count >= limit
    THEN [count |-> count, result |-> "limit_reached", attempts |-> attempt]
    ELSE IF outs[attempt + 1] = "ok"
    THEN [count |-> count + 1, result |-> "ok", attempts |-> attempt + 1]
    ELSE IF outs[attempt + 1] = "error"
    THEN [count |-> count + 1, result |-> "error", attempts |-> attempt + 1]
    ELSE IF attempt = max_retries - 1
    THEN [count |-> count + 1, result |-> "resource_exhausted", attempts |-> attempt + 1]
    ELSE RetryFrom(attempt + 1, count + 1, limit, outs)

\* a retry loop without the quota test before the call
retry_without_quota(count, limit, outs) ==
    RetryFrom(0, count, count + max_retries + 1, outs)

\* a retry loop that treats every exception as ResourceExhausted
RECURSIVE RetryAnyFrom(_, _, _, _)
RetryAnyFrom(attempt, count, limit, outs) ==
    IF attempt >= max_retries
    THEN [count |-> count, result |-> "max_retries_reached", attempts |-> attempt]
    ELSE IF count >= limit
    THEN [count |-> count, result |-> "limit_reached", attempts |-> attempt]
    ELSE IF outs[attempt + 1] = "ok"
    THEN [count |-> count + 1, result |-> "ok", attempts |-> attempt + 1]
    ELSE IF attempt = max_retries - 1
    THEN [count |-> count + 1,
          result |-> IF outs[attempt + 1] = "error" THEN "error" ELSE "resource_exhausted",
          attempts |-> attempt + 1]
    ELSE RetryAnyFrom(attempt + 1, count + 1, limit, outs)

retry_on_any_exception(count, limit, outs) == RetryAnyFrom(0, count, limit, outs)

retry_with_backoff(count, limit, outs) == RetryFrom(0, count, limit, outs)

\* every sequence of per-attempt outcomes of a wrapped function
AttemptOutcomes == [1..max_retries -> {"ok", "error", "exhausted"}]

NoRetry ==
    [called |-> FALSE, before |-> 0, limit |-> 0, outs |-> Pattern(0, "ok"),
     ret |-> [count |-> 0, result |-> "none", attempts |-> 0]]

\* self._retry_with_backoff(func, *args) called on a constructed agent
RetryWithBackoff(outs) ==
    /\ r_pc = "idle"
    /\ LET ret == retry_with_backoff(api_call_count, max_api_calls, outs)
       IN /\ api_call_count' = ret.count
          /\ last_retry' = [called |-> TRUE, before |-> api_call_count,
                            limit |-> max_api_calls, outs |-> outs, ret |-> ret]
    /\ UNCHANGED <<max_api_calls, rstate, r_pc, r_trace, r_result, r_runs, r_base>>
    /\ UNCHANGED notResearchAgent

Take(s, n) == IF Len(s) <= n THEN s ELSE SubSeq(s, 1, n)

\* arXiv entries: each entry is TRUE when it carries a "pdf" url
EntryLists == UNION {[1..n -> BOOLEAN] : n \in 0..MaxEntries}

InitialState ==
    [papers |-> <<>>, paper_analyses |-> <<>>, identified_gaps |-> "",
     research_proposal |-> "", final_pdf_path |-> "", step_count |-> 0,
     current_step |-> "initialized", api_call_count |-> 0]

\* r_result before research() has returned
NoResult ==
    [papers_found |-> 0, papers_analyzed |-> 0, final_pdf_path |-> "",
     workflow_completed |-> FALSE, steps_completed |-> 0, api_calls_made |-> 0,
     returned |-> FALSE]

\* AIResearcherAgent(max_api_calls=limit) (__init__)
NewAgent(limit) ==
    /\ r_pc = "new"
    /\ max_api_calls' = limit
    /\ api_call_count' = 0
    /\ r_pc' = "idle"
    /\ UNCHANGED <<rstate, r_trace, r_result, r_runs>>
    /\ UNCHANGED notResearch

\* research(topic): build the initial state and enter the workflow
ResearchStart ==
    /\ r_pc \in {"idle", "end"}
    /\ r_runs < MaxRuns
    /\ r_runs' = r_runs + 1
    /\ rstate' = InitialState
    /\ r_pc' = "search_papers"
    /\ r_trace' = <<>>
    /\ r_result' = NoResult
    /\ r_base' = api_call_count
    /\ UNCHANGED <<max_api_calls, api_call_count>>
    /\ UNCHANGED <<notResearchAgent, last_retry>>

\* the five nodes in the order _create_workflow chains them
StageOrder ==
    <<"search_papers", "analyze_papers", "identify_gaps", "generate_paper",
      "create_pdf">>

\* a workflow whose search node is wired past the analysis node
NextNodeSkipsAnalysis(node) ==
    CASE node = "search_papers" -> "identify_gaps"
      [] node = "analyze_papers" -> "identify_gaps"
      [] node = "identify_gaps" -> "generate_paper"
      [] node = "generate_paper" -> "create_pdf"
      [] node = "create_pdf" -> "END"

\* the edge leaving a node (_create_workflow)
NextNode(node) ==
    CASE node = "search_papers" -> "analyze_papers"
      [] node = "analyze_papers" -> "identify_gaps"
      [] node = "identify_gaps" -> "generate_paper"
      [] node = "generate_paper" -> "create_pdf"
      [] node = "create_pdf" -> "END"

\* _search_papers_node
SearchPapersNode(outs, entries) ==
    /\ r_pc = "search_papers"
    /\ LET r == retry_with_backoff(api_call_count, max_api_calls, outs)
       IN /\ api_call_count' = r.count
          /\ rstate' =
                IF r.result = "ok"
                THEN [rstate EXCEPT !.papers = Take(entries, max_papers),
                                    !.current_step = "search_completed",
                                    !.step_count = 1,
                                    !.api_call_count = r.count]
                ELSE [rstate EXCEPT !.papers = <<>>,
                                    !.api_call_count = r.count]
    /\ r_trace' = Append(r_trace, "search_papers")
    /\ r_pc' = NextNode("search_papers")
    /\ UNCHANGED <<max_api_calls, r_result, r_runs>>
    /\ UNCHANGED notResearch

\* the for loop of _analyze_papers_node from paper i on: ins[i] holds the
\* outcomes of the read_pdf call and of the llm call for paper i
RECURSIVE AnalyzeLoop(_, _, _, _, _, _)
AnalyzeLoop(i, papers, count, limit, analyses, ins) ==
    IF i > Len(papers) THEN [count |-> count, analyses |-> analyses]
    ELSE IF ~papers[i]
    THEN AnalyzeLoop(i + 1, papers, count, limit, analyses, ins)
    ELSE LET rd == retry_with_backoff(count, limit, ins[i].read)
         IN IF rd.result # "ok"
            THEN AnalyzeLoop(i + 1, papers, rd.count, limit, analyses, ins)
            ELSE LET an == retry_with_backoff(rd.count, limit, ins[i].llm)
                 IN IF an.result # "ok"
                    THEN AnalyzeLoop(i + 1, papers, an.count, limit, analyses, ins)
                    ELSE AnalyzeLoop(i + 1, papers, an.count, limit,
                                     Append(analyses, i), ins)

\* _analyze_papers_node
AnalyzePapersNode(ins) ==
    /\ r_pc = "analyze_papers"
    /\ LET r == AnalyzeLoop(1, rstate.papers, api_call_count, max_api_calls, <<>>, ins)
       IN /\ api_call_count' = r.count
          /\ rstate' = [rstate EXCEPT !.paper_analyses = r.analyses,
                                      !.current_step = "analysis_completed",
                                      !.step_count = 2,
                                      !.api_call_count = r.count]
    /\ r_trace' = Append(r_trace, "analyze_papers")
    /\ r_pc' = NextNode("analyze_papers")
    /\ UNCHANGED <<max_api_calls, r_result, r_runs>>
    /\ UNCHANGED notResearch

\* _identify_gaps_node
IdentifyGapsNode(outs) ==
    /\ r_pc = "identify_gaps"
    /\ IF rstate.paper_analyses = <<>>
       THEN /\ rstate' = [rstate EXCEPT !.identified_gaps = "default_no_papers",
                                        !.current_step = "gaps_identified",
                                        !.step_count = 3,
                                        !.api_call_count = api_call_count]
            /\ UNCHANGED api_call_count
       ELSE LET r == retry_with_backoff(api_call_count, max_api_calls, outs)
            IN /\ api_call_count' = r.count
               /\ rstate' =
                     IF r.result = "ok"
                     THEN [rstate EXCEPT !.identified_gaps = "llm_gaps",
                                         !.current_step = "gaps_identified",
                                         !.step_count = 3,
                                         !.api_call_count = r.count]
                     ELSE [rstate EXCEPT !.identified_gaps = "default_error",
                                         !.api_call_count = r.count]
    /\ r_trace' = Append(r_trace, "identify_gaps")
    /\ r_pc' = NextNode("identify_gaps")
    /\ UNCHANGED <<max_api_calls, r_result, r_runs>>
    /\ UNCHANGED notResearch

\* what the LLM returned for the paper prompt:
\*   "short"       empty or fewer than 100 characters
\*   "incomplete"  no \end{document}
\*   "complete"    a LaTeX document
\*   "no_class"    has \end{document} but no \documentclass
Contents == {"short", "incomplete", "complete", "no_class"}

\* _clean_latex_content keeps \documentclass and \end{document} as they are
clean_latex_content(content) ==
    IF content = "no_class" THEN "llm_latex_no_class" ELSE "llm_latex"

\* the try block of _generate_paper_node; proposal "raised" stands for the
\* exception that sends the node to its except block
GenerateTry(count, limit, outs1, content1, outs2, content2) ==
    LET r1 == retry_with_backoff(count, limit, outs1)
    IN IF r1.result # "ok" THEN [count |-> r1.count, proposal |-> "raised"]
       ELSE IF content1 = "short"
       THEN [count |-> r1.count, proposal |-> "default_template"]
       ELSE IF content1 = "incomplete"
       THEN LET r2 == retry_with_backoff(r1.count, limit, outs2)
            IN IF r2.result # "ok" THEN [count |-> r2.count, proposal |-> "raised"]
               ELSE IF content2 \in {"complete", "no_class"}
               THEN [count |-> r2.count, proposal |-> clean_latex_content(content2)]
               ELSE [count |-> r2.count, proposal |-> "default_template"]
       ELSE [count |-> r1.count, proposal |-> clean_latex_content(content1)]

\* an except block that leaves research_proposal as research() built it
GenerateFallbackKeepsEmpty(proposal) ==
    IF proposal = "raised" THEN "" ELSE proposal

\* research_proposal after the try/except of _generate_paper_node: the
\* except block stores _default_latex_template(topic, identified_gaps)
GenerateFallback(proposal) ==
    IF proposal = "raised" THEN "default_template" ELSE proposal

\* _generate_paper_node
GeneratePaperNode(outs1, content1, outs2, content2) ==
    /\ r_pc = "generate_paper"
    /\ LET g == GenerateTry(api_call_count, max_api_calls, outs1, content1, outs2, content2)
       IN /\ api_call_count' = g.count
          /\ rstate' = [rstate EXCEPT
                           !.research_proposal = GenerateFallback(g.proposal),
                           !.current_step = "paper_generated",
                           !.step_count = 4,
                           !.api_call_count = g.count]
    /\ r_trace' = Append(r_trace, "generate_paper")
    /\ r_pc' = NextNode("generate_paper")
    /\ UNCHANGED <<max_api_calls, r_result, r_runs>>
    /\ UNCHANGED notResearch

\* outcomes of render_latex_pdf.invoke:
\*   "pdf"/"tex"     the path it returns (it catches its own exceptions)
\*   "render_error"  raised: its handler reads tex_file, which is unbound
\*                   when the output directory could not be prepared
RenderOutcomes == {"pdf", "tex", "render_error"}

\* an except block that counts the step although the render failed
StepCountAfterFailedRenderCounted(old) == 5

\* the step counter the except block of _create_pdf_node leaves behind
StepCountAfterFailedRender(old) == old

\* _create_pdf_node
CreatePdfNode(outcome) ==
    /\ r_pc = "create_pdf"
    /\ rstate' =
          IF outcome \in {"pdf", "tex"}
          THEN [rstate EXCEPT !.final_pdf_path = outcome,
                              !.current_step = "completed",
                              !.step_count = 5,
                              !.api_call_count = api_call_count]
          ELSE [rstate EXCEPT !.final_pdf_path = "",
                              !.step_count = StepCountAfterFailedRender(rstate.step_count),
                              !.api_call_count = api_call_count]
    /\ r_trace' = Append(r_trace, "create_pdf")
    /\ r_pc' = NextNode("create_pdf")
    /\ UNCHANGED <<max_api_calls, api_call_count, r_result, r_runs>>
    /\ UNCHANGED notResearch

\* research(): the dict built from the final state
ResearchReturn ==
    /\ r_pc = "END"
    /\ r_result' =
          [papers_found |-> Len(rstate.papers),
           papers_analyzed |-> Len(rstate.paper_analyses),
           final_pdf_path |-> rstate.final_pdf_path,
           workflow_completed |-> (rstate.current_step = "completed"),
           steps_completed |-> rstate.step_count,
           api_calls_made |-> rstate.api_call_count,
           returned |-> TRUE]
    /\ r_pc' = "end"
    /\ UNCHANGED <<max_api_calls, api_call_count, rstate, r_trace, r_runs>>
    /\ UNCHANGED notResearch

InitResearch ==
    /\ last_retry = NoRetry
    /\ r_base = 0
    /\ max_api_calls = 0
    /\ api_call_count = 0
    /\ rstate = InitialState
    /\ r_pc = "new"
    /\ r_trace = <<>>
    /\ r_result = NoResult
    /\ r_runs = 0

PaperInputs == [read : CallPatterns, llm : CallPatterns]

NextResearch ==
    \/ \E limit \in 0..MaxApiCalls : NewAgent(limit)
    \/ ResearchStart
    \/ \E outs \in CallPatterns, entries \in EntryLists : SearchPapersNode(outs, entries)
    \/ \E ins \in [1..max_papers -> PaperInputs] : AnalyzePapersNode(ins)
    \/ \E outs \in CallPatterns : IdentifyGapsNode(outs)
    \/ \E outs1 \in CallPatterns, outs2 \in CallPatterns,
          content1 \in Contents, content2 \in Contents :
             GeneratePaperNode(outs1, content1, outs2, content2)
    \/ \E outcome \in RenderOutcomes : CreatePdfNode(outcome)
    \/ ResearchReturn

NextRetry ==
    \/ \E limit \in 0..MaxApiCalls : NewAgent(limit)
    \/ \E outs \in AttemptOutcomes : RetryWithBackoff(outs)

(***************************************************************************)
(* render_latex_pdf (fourthagent/write-pdf.py)                             *)
(***************************************************************************)

\* seconds the clock passes through
MaxSeconds == 2

\* output_dir / f"paper_{timestamp}.tex" and .pdf; ext "UnboundLocalError"
\* stands for the exception that leaves the function
TexFile(ts) == [ts |-> ts, ext |-> "tex"]
PdfFile(ts) == [ts |-> ts, ext |-> "pdf"]
Raised(ts) == [ts |-> ts, ext |-> "UnboundLocalError"]

\* what the environment does during one call:
\*   mkdir_ok   output_dir.mkdir(exist_ok=True) returns
\*   write_ok   open(tex_file, 'w') and f.write return
\*   tectonic   "absent" (shutil.which finds none), or whether the run
\*              leaves paper_<ts>.pdf
\*   pdflatex   "absent", or the exit status of the run and whether it
\*              leaves paper_<ts>.pdf (a run that reports errors can still
\*              write the PDF; a run in DVI mode exits 0 without one)
TectonicRuns == {"absent", "pdf", "nopdf"}
PdflatexRuns == {"absent", "ok_pdf", "err_pdf", "err_nopdf", "ok_nopdf"}
RenderEnvs ==
    [mkdir_ok : BOOLEAN, write_ok : BOOLEAN,
     tectonic : TectonicRuns, pdflatex : PdflatexRuns]

RenderResult(ret, log, fs, made) ==
    [ret |-> ret, log |-> log, files |-> fs, made |-> made]

\* the pdflatex branch and the final fallback (write-pdf.py:50-67)
RenderWithPdflatex(fs, ts, env, log) ==
    IF env.pdflatex = "absent"
    THEN RenderResult(TexFile(ts), log, fs, {})
    ELSE LET wrote == env.pdflatex \in {"ok_pdf", "err_pdf"}
             returncode == IF env.pdflatex \in {"ok_pdf", "ok_nopdf"} THEN 0 ELSE 1
             fs2 == IF wrote THEN fs \cup {PdfFile(ts)} ELSE fs
         IN RenderResult(IF returncode = 0 /\ PdfFile(ts) \in fs2
                         THEN PdfFile(ts) ELSE TexFile(ts),
                         Append(log, "pdflatex"), fs2,
                         IF wrote THEN {"pdflatex"} ELSE {})

\* render_latex_pdf(latex_content) called at second ts with the output
\* directory holding fs: the value returned, the steps taken in order, the
\* files afterwards and the compilers that wrote paper_<ts>.pdf in this call
render_latex_pdf(fs, ts, env) ==
    IF ~env.mkdir_ok
    THEN RenderResult(Raised(ts), <<>>, fs, {})
    ELSE IF ~env.write_ok
    THEN RenderResult(TexFile(ts), <<>>, fs, {})
    ELSE LET fs1 == fs \cup {TexFile(ts)}
             log1 == <<"write_tex">>
         IN IF env.tectonic = "absent"
            THEN RenderWithPdflatex(fs1, ts, env, log1)
            ELSE LET fs2 == IF env.tectonic = "pdf"
                            THEN fs1 \cup {PdfFile(ts)} ELSE fs1
                     log2 == Append(log1, "tectonic")
                 IN IF PdfFile(ts) \in fs2
                    THEN RenderResult(PdfFile(ts), log2, fs2,
                                      IF env.tectonic = "pdf" THEN {"tectonic"} ELSE {})
                    ELSE RenderWithPdflatex(fs2, ts, env, log2)

NoRender ==
    [called |-> FALSE, env |-> [mkdir_ok |-> TRUE, write_ok |-> TRUE,
                                tectonic |-> "absent", pdflatex |-> "absent"],
     ts |-> 0, had_pdf |-> FALSE, ret |-> Raised(0), log |-> <<>>, made |-> {}]

\* one call of render_latex_pdf
RenderLatexPdf(env) ==
    /\ LET r == render_latex_pdf(out_files, render_now, env)
       IN /\ out_files' = r.files
          /\ last_render' = [called |-> TRUE, env |-> env, ts |-> render_now,
                             had_pdf |-> PdfFile(render_now) \in out_files,
                             ret |-> r.ret, log |-> r.log, made |-> r.made]
    /\ UNCHANGED render_now
    /\ UNCHANGED notRender

\* a second passes between two calls
Tick ==
    /\ render_now < MaxSeconds
    /\ render_now' = render_now + 1
    /\ UNCHANGED <<out_files, last_render>>
    /\ UNCHANGED notRender

InitRender ==
    /\ out_files = {}
    /\ render_now = 1
    /\ last_render = NoRender

NextRender ==
    \/ \E env \in RenderEnvs : RenderLatexPdf(env)
    \/ Tick

(***************************************************************************)
(* SecureToolRegistry and POST /agents/{agent_id}/tools                    *)
(***************************************************************************)

\* agents created through POST /agents
MaxAgents == 1

\* ids of authenticated users (User.id)
Users == {1, 2}
\* "owner_id": None of the default agents (main.py:122)
NoOwner == 0

ALLOWED_BUILTINS ==
    {"abs", "all", "any", "bool", "dict", "enumerate", "filter", "float",
     "int", "len", "list", "map", "max", "min", "range", "round", "set",
     "sorted", "str", "sum", "tuple", "zip", "print"}

ALLOWED_MODULES ==
    {"math", "datetime", "json", "re", "urllib.parse", "base64",
     "hashlib", "uuid", "random", "string"}

forbidden_names == {"exec", "eval", "compile", "__import__", "open", "file"}

Node(kind, id) == [kind |-> kind, id |-> id]

\* Submitted function sources.  nodes is the ast.walk order of the parsed
\* source (breadth first, the Module node first); defs maps each function
\* the source defines at top level to its parameters without a default;
\* exec_ok tells whether exec() of the source in the safe globals returns.
Codes ==
    [ sum |->        \* def calculate_sum(a: int, b: int) -> int: return a + b
        [syntax_ok |-> TRUE,
         nodes |-> <<Node("Module", ""), Node("FunctionDef", "calculate_sum"),
                     Node("arguments", ""), Node("Return", ""), Node("Name", "int"),
                     Node("arg", "a"), Node("arg", "b"), Node("BinOp", "")>>,
         defs |-> [calculate_sum |-> {"a", "b"}], exec_ok |-> TRUE],
      import_os |->  \* def sys_info(): import os; return os.name
        [syntax_ok |-> TRUE,
         nodes |-> <<Node("Module", ""), Node("FunctionDef", "sys_info"),
                     Node("arguments", ""), Node("Import", "os"), Node("Return", ""),
                     Node("Attribute", "name")>>,
         defs |-> [sys_info |-> {}], exec_ok |-> TRUE],
      eval_call |->  \* def run_expr(expr): return eval(expr)
        [syntax_ok |-> TRUE,
         nodes |-> <<Node("Module", ""), Node("FunctionDef", "run_expr"),
                     Node("arguments", ""), Node("Return", ""), Node("arg", "expr"),
                     Node("CallName", "eval"), Node("Name", "expr")>>,
         defs |-> [run_expr |-> {"expr"}], exec_ok |-> TRUE],
      open_call |->  \* def read_file(path): return open(path)
        [syntax_ok |-> TRUE,
         nodes |-> <<Node("Module", ""), Node("FunctionDef", "read_file"),
                     Node("arguments", ""), Node("Return", ""), Node("arg", "path"),
                     Node("CallName", "open"), Node("Name", "path")>>,
         defs |-> [read_file |-> {"path"}], exec_ok |-> TRUE],
      math_call |->  \* def root(x): return math.sqrt(x)
        [syntax_ok |-> TRUE,
         nodes |-> <<Node("Module", ""), Node("FunctionDef", "root"),
                     Node("arguments", ""), Node("Return", ""), Node("arg", "x"),
                     Node("CallAttr", "math"), Node("Name", "x")>>,
         defs |-> [root |-> {"x"}], exec_ok |-> TRUE],
      bad_syntax |-> \* def calculate_sum(a, b:
        [syntax_ok |-> FALSE, nodes |-> <<>>, defs |-> <<>>, exec_ok |-> FALSE] ]

Schema(props, req) == [properties |-> props, required |-> req]

Sub(name, code, schema, imports) ==
    [name |-> name, code |-> code, params_schema |-> schema,
     allowed_imports |-> imports]

\* the documented example of RegisterToolRequest (main.py:232-245)
CalculateSumExample == Sub("calculate_sum", "sum", Schema({"a", "b"}, {"a", "b"}), {})

Submissions ==
    { CalculateSumExample,
      Sub("sys_info", "import_os", Schema({}, {}), {}),
      Sub("run_expr", "eval_call", Schema({"expr"}, {"expr"}), {}),
      Sub("read_file", "open_call", Schema({"path"}, {"path"}), {}),
      Sub("root", "math_call", Schema({"x"}, {"x"}), {"math"}),
      Sub("eval", "sum", Schema({"a", "b"}, {"a", "b"}), {}),
      Sub("calculate_sum", "bad_syntax", Schema({"a", "b"}, {"a", "b"}), {}) }

\* ToolSchema(...): the field constraints and validate_name
ToolSchemaValid(sub) == sub.name \notin forbidden_names

\* _is_local_function(tree, func_name)
is_local_function(code, func_name) ==
    \E i \in 1..Len(code.nodes) :
        code.nodes[i].kind = "FunctionDef" /\ code.nodes[i].id = func_name

\* the body of the for loop of validate_code for one node: "pass" or the
\* exception raised.  Reaching the `elif isinstance(node, ast.Exec)` test
\* evaluates ast.Exec, which Python 3's ast module does not have.
CheckNode(code, node, allowed_imports) ==
    IF node.kind = "CallName"
    THEN IF node.id \notin ALLOWED_BUILTINS /\ ~is_local_function(code, node.id)
         THEN "ValueError" ELSE "pass"
    ELSE IF node.kind = "CallAttr"
    THEN IF node.id \notin allowed_imports THEN "ValueError" ELSE "pass"
    ELSE IF node.kind = "Call" THEN "pass"
    ELSE IF node.kind = "Import"
    THEN IF node.id \notin ALLOWED_MODULES /\ node.id \notin allowed_imports
         THEN "ValueError" ELSE "pass"
    ELSE IF node.kind = "ImportFrom"
    THEN IF node.id \notin ALLOWED_MODULES /\ node.id \notin allowed_imports
         THEN "ValueError" ELSE "pass"
    ELSE "AttributeError"

RECURSIVE WalkFrom(_, _, _)
WalkFrom(i, code, allowed_imports) ==
    IF i > Len(code.nodes) THEN "True"
    ELSE LET r == CheckNode(code, code.nodes[i], allowed_imports)
         IN IF r = "pass" THEN WalkFrom(i + 1, code, allowed_imports) ELSE r

\* a validator that stops after the syntax check
validate_syntax_only(code, allowed_imports) ==
    IF ~code.syntax_ok THEN "ValueError" ELSE "True"

\* ToolValidator.validate_code(code, allowed_imports): "True" or the
\* exception raised
validate_code(code, allowed_imports) ==
    IF ~code.syntax_ok THEN "ValueError"
    ELSE WalkFrom(1, code, allowed_imports)

\* _validate_function_signature(sig, params_schema): TRUE when it returns
validate_function_signature(params, schema) ==
    /\ \A p \in params : p \in schema.properties
    /\ \A p \in schema.required : p \in params

\* the steps of SecureToolRegistry.register_tool a submission gets through:
\* the stage that raised, or "stored"
RegisterStage(sub) ==
    LET code == Codes[sub.code]
    IN IF ~ToolSchemaValid(sub) THEN "schema"
       ELSE IF validate_code(code, sub.allowed_imports) # "True" THEN "validate_code"
       ELSE IF ~code.exec_ok THEN "exec"
       ELSE IF sub.name \notin DOMAIN code.defs THEN "lookup"
       ELSE IF ~validate_function_signature(code.defs[sub.name], sub.params_schema)
       THEN "signature"
       ELSE "stored"

\* a register_tool that runs exec before validate_code
ExecBeforeValidation(sub) == RegisterStage(sub) # "schema"

\* exec(function_code, safe_globals, safe_locals) is reached
ExecReached(sub) == RegisterStage(sub) \notin {"schema", "validate_code"}

\* self.tools = {}
NoTools == [n \in {} |-> None]

ToolEntry(sub) ==
    [func |-> sub.code, schema |-> sub.params_schema,
     allowed_imports |-> sub.allowed_imports]

\* a register_tool that files the tool as soon as its schema is accepted
ToolsAfterStoredEarly(reg, sub) ==
    IF RegisterStage(sub) # "schema"
    THEN [n \in DOMAIN reg \cup {sub.name} |->
             IF n = sub.name THEN ToolEntry(sub) ELSE reg[n]]
    ELSE reg

\* self.tools after register_tool(sub)
ToolsAfter(reg, sub) ==
    IF RegisterStage(sub) = "stored"
    THEN [n \in DOMAIN reg \cup {sub.name} |->
             IF n = sub.name THEN ToolEntry(sub) ELSE reg[n]]
    ELSE reg

\* list_tools() of the four agent classes
AgentTools(agent_type) ==
    CASE agent_type = "math" -> {"calculator"}
      [] agent_type = "intelligent" -> {"web_search", "get_weather", "get_news"}
      [] agent_type = "autonomous" -> SimulatedTools
      [] OTHER -> {"research_topic"}

DefaultTypes == <<"math", "intelligent", "autonomous", "researcher">>

Meta(agent_type, owner) ==
    [agent_type |-> agent_type, owner_id |-> owner, tools |-> AgentTools(agent_type)]

\* SecureToolRegistry.register_tool(...) called on the registry itself
RegistryRegisterTool(sub) ==
    /\ started
    /\ tools' = ToolsAfter(tools, sub)
    /\ execd' = IF ExecReached(sub) THEN execd \cup {sub} ELSE execd
    /\ last_reg' = [op |-> "registry", sub |-> sub, agent |-> 0, user |-> 0,
                    status |-> IF RegisterStage(sub) = "stored" THEN 200 ELSE 400,
                    stage |-> RegisterStage(sub)]
    /\ UNCHANGED <<agents_store, agent_metadata, uuids_used, started>>
    /\ UNCHANGED notTools

\* an ownership test that lets everyone use an agent nobody owns
OwnerCheckOpenDefaults(meta, user) == meta.owner_id = user \/ meta.owner_id = NoOwner

\* the ownership test of the endpoint (main.py:751-753)
OwnerCheck(meta, user) == meta.owner_id = user

\* POST /agents/{agent_id}/tools (main.register_tool)
PostAgentTool(agent_id, user, sub) ==
    /\ started
    /\ IF agent_id \notin DOMAIN agents_store
       THEN /\ last_reg' = [op |-> "endpoint", sub |-> sub, agent |-> agent_id, user |-> user,
                            status |-> 404, stage |-> "lookup_agent"]
            /\ UNCHANGED <<tools, agent_metadata, execd>>
       ELSE IF ~OwnerCheck(agent_metadata[agent_id], user)
       THEN /\ last_reg' = [op |-> "endpoint", sub |-> sub, agent |-> agent_id, user |-> user,
                            status |-> 403, stage |-> "ownership"]
            /\ UNCHANGED <<tools, agent_metadata, execd>>
       ELSE /\ tools' = ToolsAfter(tools, sub)
            /\ execd' = IF ExecReached(sub) THEN execd \cup {sub} ELSE execd
            /\ agent_metadata' =
                  IF RegisterStage(sub) = "stored"
                  THEN [agent_metadata EXCEPT
                           ![agent_id].tools = agents_store[agent_id].tools]
                  ELSE agent_metadata
            /\ last_reg' = [op |-> "endpoint", sub |-> sub, agent |-> agent_id, user |-> user,
                            status |-> IF RegisterStage(sub) = "stored" THEN 200 ELSE 400,
                            stage |-> RegisterStage(sub)]
    /\ UNCHANGED <<agents_store, uuids_used, started>>
    /\ UNCHANGED notTools

\* agents_store / agent_metadata with agent a added
WithAgent(store, a, entry) ==
    [x \in DOMAIN store \cup {a} |-> IF x = a THEN entry ELSE store[x]]

AgentObject(agent_type) == [agent_type |-> agent_type, tools |-> AgentTools(agent_type)]

\* whether create_agent's constructor call matches the class's __init__:
\* AutonomousAgent.__init__(self, api_key) is called with the keywords
\* google_api_key and search_engine_id as well (main.py:347-351)
ConstructorAccepts(agent_type) == agent_type # "autonomous"

\* the store changes of POST /agents (main.create_agent); constructed tells
\* whether the environment lets the agent class be instantiated (API keys)
CreateAgentStores(user, agent_type, constructed) ==
    /\ started
    /\ uuids_used < Len(DefaultTypes) + MaxAgents
    /\ uuids_used' = uuids_used + 1
    /\ IF constructed /\ ConstructorAccepts(agent_type)
       THEN /\ agents_store' =
                  WithAgent(agents_store, uuids_used + 1, AgentObject(agent_type))
            /\ agent_metadata' =
                  WithAgent(agent_metadata, uuids_used + 1, Meta(agent_type, user))
       ELSE UNCHANGED <<agents_store, agent_metadata>>
    /\ UNCHANGED <<tools, execd, last_reg, started>>

\* POST /agents (main.create_agent)
CreateAgent(user, agent_type, constructed) ==
    /\ CreateAgentStores(user, agent_type, constructed)
    /\ UNCHANGED notTools

\* a delete that leaves the metadata entry behind
MetadataAfterDeleteKept(meta, agent_id) == meta

\* del agent_metadata[agent_id] (main.py:415)
MetadataAfterDelete(meta, agent_id) ==
    [a \in DOMAIN meta \ {agent_id} |-> meta[a]]

\* the store changes of a DELETE /agents/{agent_id} that finds the agent
DeleteAgentStores(agent_id) ==
    /\ started
    /\ agent_id \in DOMAIN agents_store
    /\ agents_store' = [a \in DOMAIN agents_store \ {agent_id} |-> agents_store[a]]
    /\ agent_metadata' = MetadataAfterDelete(agent_metadata, agent_id)
    /\ UNCHANGED <<tools, uuids_used, execd, last_reg, started>>

\* DELETE /agents/{agent_id} (main.delete_agent)
DeleteAgent(agent_id) ==
    /\ DeleteAgentStores(agent_id)
    /\ UNCHANGED notTools

\* last_req: op is the endpoint, agent the id in the path (for create, the
\* uuid drawn), env_ok whether the environment let the constructor run
Req(op, agent_id, user, agent_type, env_ok, status) ==
    [op |-> op, agent |-> agent_id, user |-> user, agent_type |-> agent_type,
     env_ok |-> env_ok, status |-> status]
NoReq == Req("none", 0, 0, "none", TRUE, 0)

\* POST /agents and the /demo/create-*-agent endpoints, which build the
\* request and call create_agent; 200 with AgentInfo, or 400
PostAgents(user, agent_type, constructed) ==
    /\ CreateAgentStores(user, agent_type, constructed)
    /\ last_req' = Req("create", uuids_used + 1, user, agent_type, constructed,
                       IF constructed /\ ConstructorAccepts(agent_type)
                       THEN 200 ELSE 400)
    /\ UNCHANGED deleted
    /\ UNCHANGED notAgents

\* DELETE /agents/{agent_id}
DeleteAgents(agent_id) ==
    /\ \/ /\ DeleteAgentStores(agent_id)
          /\ deleted' = deleted \cup {agent_id}
          /\ last_req' = Req("delete", agent_id, 0, "none", TRUE, 200)
       \/ /\ started
          /\ agent_id \notin DOMAIN agents_store
          /\ last_req' = Req("delete", agent_id, 0, "none", TRUE, 404)
          /\ UNCHANGED <<toolVars, deleted>>
    /\ UNCHANGED notAgents

\* a metadata write that does not happen
ResearchAgentMetaUnwritten(meta, agent_id, agent) == meta

\* agent_metadata[agent_id] = {..., "agent_type": "researcher",
\* "owner_id": None, "tools": agent.list_tools()} (main.py:867-876)
ResearchAgentMeta(meta, agent_id, agent) ==
    WithAgent(meta, agent_id,
              [agent_type |-> "researcher", owner_id |-> NoOwner, tools |-> agent.tools])

\* POST /create-research-agent (main.create_research_agent): built is the
\* class whose constructor returned, "researcher", the fallback
\* "intelligent", or "none" when both raised
CreateResearchAgent(built) ==
    /\ started
    /\ uuids_used < Len(DefaultTypes) + MaxAgents
    /\ uuids_used' = uuids_used + 1
    /\ IF built # "none"
       THEN /\ agents_store' = WithAgent(agents_store, uuids_used + 1, AgentObject(built))
            /\ agent_metadata' =
                  ResearchAgentMeta(agent_metadata, uuids_used + 1, AgentObject(built))
       ELSE UNCHANGED <<agents_store, agent_metadata>>
    /\ last_req' = Req("create_research", uuids_used + 1, NoOwner, "researcher",
                       built # "none", IF built # "none" THEN 200 ELSE 400)
    /\ UNCHANGED <<tools, execd, last_reg, started, deleted>>
    /\ UNCHANGED notAgents

\* the endpoints that look an agent up and leave the stores alone
LookupOps == {"get", "chat", "chat_stream", "clear_history", "tools"}

\* status of a lookup request; ok tells whether the agent's own method
\* (chat, clear_history) returned
LookupStatus(op, agent_id, ok) ==
    IF op = "get"
    THEN IF agent_id \in DOMAIN agent_metadata THEN 200 ELSE 404
    ELSE IF agent_id \notin DOMAIN agents_store THEN 404
    ELSE CASE op = "chat" -> IF ok THEN 200 ELSE 500
           [] op = "clear_history" -> IF ok THEN 200 ELSE 500
           [] op = "chat_stream" -> 200
           \* agent.tools.items(): AutonomousAgent has no attribute tools
           [] op = "tools" ->
                 IF agents_store[agent_id].agent_type = "autonomous" THEN 500 ELSE 200

\* GET /agents/{id}, POST .../chat, POST .../chat/stream,
\* POST .../clear-history, GET .../tools
AgentLookup(op, agent_id, ok) ==
    /\ started
    /\ last_req' = Req(op, agent_id, 0, "none", TRUE, LookupStatus(op, agent_id, ok))
    /\ UNCHANGED <<toolVars, deleted>>
    /\ UNCHANGED notAgents

NoReg ==
    [op |-> "none", sub |-> CalculateSumExample, agent |-> 0, user |-> 0,
     status |-> 0, stage |-> "none"]

\* lifespan startup: a fresh registry and the first n default agents
\* (create_default_agents stops at the first constructor that raises)
Startup(n) ==
    /\ ~started
    /\ started' = TRUE
    /\ tools' = NoTools
    /\ agents_store' = [a \in 1..n |-> AgentObject(DefaultTypes[a])]
    /\ agent_metadata' = [a \in 1..n |-> Meta(DefaultTypes[a], NoOwner)]
    /\ uuids_used' = Len(DefaultTypes)
    /\ UNCHANGED <<execd, last_reg>>
    /\ UNCHANGED notTools

InitTools ==
    /\ started = FALSE
    /\ tools = NoTools
    /\ agents_store = <<>>
    /\ agent_metadata = <<>>
    /\ uuids_used = 0
    /\ execd = {}
    /\ last_reg = NoReg
    /\ last_req = NoReq
    /\ deleted = {}

AgentIds == 1..(Len(DefaultTypes) + MaxAgents)

AgentTypes == {"math", "intelligent", "autonomous", "researcher"}

NextAgents ==
    \/ \E n \in 0..Len(DefaultTypes) : Startup(n)
    \/ \E u \in Users, t \in AgentTypes, c \in BOOLEAN : PostAgents(u, t, c)
    \/ \E built \in {"researcher", "intelligent", "none"} : CreateResearchAgent(built)
    \/ \E a \in AgentIds : DeleteAgents(a)
    \/ \E op \in LookupOps, a \in AgentIds, ok \in BOOLEAN : AgentLookup(op, a, ok)

NextTools ==
    \/ \E n \in 0..Len(DefaultTypes) : Startup(n)
    \/ \E sub \in Submissions : RegistryRegisterTool(sub)
    \/ \E a \in AgentIds, u \in Users, sub \in Submissions : PostAgentTool(a, u, sub)
    \/ \E u \in Users, t \in {"math", "autonomous", "researcher"},
          c \in BOOLEAN : CreateAgent(u, t, c)
    \/ \E a \in AgentIds : DeleteAgent(a)

(***************************************************************************)
(* stream_text_response (main.py)                                          *)
(***************************************************************************)

\* chunk_size = 5 (main.py:503)
chunk_size == 5
\* words of the longest response streamed
MaxWords == 11

\* characters str.split() treats as separators
Whitespace == {" ", "\n"}

Letters == <<"a", "b", "c", "d", "e", "f", "g", "h", "i", "j", "k", "l", "m">>
\* the k-th word of a response: one letter, or the letter twice
Word(k) ==
    LET c == Letters[((k - 1) % Len(Letters)) + 1]
    IN IF k % 2 = 0 THEN <<c, c>> ELSE <<c>>

\* sep.join(ws) for ws[k..]
RECURSIVE JoinFrom(_, _, _)
JoinFrom(ws, k, sep) ==
    IF k > Len(ws) THEN <<>>
    ELSE IF k = Len(ws) THEN ws[k]
    ELSE ws[k] \o sep \o JoinFrom(ws, k + 1, sep)

Join(ws, sep) == JoinFrom(ws, 1, sep)

\* response texts: n words, with whitespace before, between and after them
ResponseText(n, lead, gap, trail) ==
    lead \o Join([k \in 1..n |-> Word(k)], gap) \o trail
ResponseTexts ==
    {ResponseText(n, lead, gap, trail) :
        n \in 0..MaxWords, lead \in {<<>>, <<" ">>},
        gap \in {<<" ">>, <<" ", "\n">>}, trail \in {<<>>, <<"\n">>}}

\* response.split(): the maximal runs of non-whitespace characters
RECURSIVE SplitFrom(_, _, _, _)
SplitFrom(text, p, cur, acc) ==
    IF p > Len(text)
    THEN IF cur = <<>> THEN acc ELSE Append(acc, cur)
    ELSE IF text[p] \in Whitespace
    THEN SplitFrom(text, p + 1, <<>>, IF cur = <<>> THEN acc ELSE Append(acc, cur))
    ELSE SplitFrom(text, p + 1, Append(cur, text[p]), acc)

split(text) == SplitFrom(text, 1, <<>>, <<>>)

Min(a, b) == IF a < b THEN a ELSE b

\* a chunk text without the space that separates it from the previous chunk
ChunkContentNoSeparator(i, chunk_words) == Join(chunk_words, <<" ">>)

\* chunk_content = " " + " ".join(chunk_words) if i > 0 else " ".join(chunk_words)
ChunkContent(i, chunk_words) ==
    IF i > 0 THEN <<" ">> \o Join(chunk_words, <<" ">>)
    ELSE Join(chunk_words, <<" ">>)

\* stream_text_response(response, ...) up to its first yield
StreamStart(response) ==
    /\ st_pc \in {"idle", "done"}
    /\ st_response' = response
    /\ st_words' = split(response)
    /\ st_i' = 0
    /\ st_events' = <<[type |-> "start", content |-> <<>>]>>
    /\ st_pc' = "loop"
    /\ UNCHANGED notStream

\* one iteration of `for i in range(0, len(words), chunk_size)`
StreamContent ==
    /\ st_pc = "loop"
    /\ st_i < Len(st_words)
    /\ LET chunk_words == SubSeq(st_words, st_i + 1, Min(st_i + chunk_size, Len(st_words)))
       IN st_events' = Append(st_events,
                              [type |-> "content",
                               content |-> ChunkContent(st_i, chunk_words)])
    /\ st_i' = st_i + chunk_size
    /\ UNCHANGED <<st_response, st_words, st_pc>>
    /\ UNCHANGED notStream

\* the range is exhausted and the generator returns
StreamEnd ==
    /\ st_pc = "loop"
    /\ st_i >= Len(st_words)
    /\ st_pc' = "done"
    /\ UNCHANGED <<st_response, st_words, st_i, st_events>>
    /\ UNCHANGED notStream

\* content and paper events one stream carries at most
MaxItems == 3

\* sse.events is the sequence of the "type" fields of the events sent,
\* sse.left counts the events the current loop or block has yet to yield,
\* sse.caught tells whether the except branch of generate_response ran,
\* sse.tools_used what the agent's _should_use_tool(s) says of the message
NoSse ==
    [pc |-> "idle", status |-> 0, agent |-> "none", tools_used |-> FALSE,
     events |-> <<>>, left |-> 0, caught |-> FALSE]

Emit(pc, type, left) ==
    [sse EXCEPT !.pc = pc, !.events = Append(sse.events, type), !.left = left]

\* chat_with_agent_stream up to `return StreamingResponse(...)`
SseOpen(found, agent_type, tools_used) ==
    /\ sse.pc \in {"idle", "closed"}
    /\ sse' = IF found
              THEN [NoSse EXCEPT !.pc = "try", !.status = 200, !.agent = agent_type,
                                 !.tools_used = tools_used]
              ELSE [NoSse EXCEPT !.pc = "closed", !.status = 404]
    /\ UNCHANGED notSse

\* generate_response up to the first event.  route "raise": the agent
\* lookup, _should_use_tools, agent.chat or response.split() raised;
\* "research": stream_research_response sends its start event; "text":
\* stream_text_response sends its start event and has `chunks` to go
SseDispatch(route, chunks) ==
    /\ sse.pc = "try"
    /\ route = "research" => (sse.agent = "researcher" /\ sse.tools_used)
    /\ route = "text" => ~(sse.agent = "researcher" /\ sse.tools_used)
    /\ sse' = CASE route = "raise" ->
                     [Emit("finally", "error", 0) EXCEPT !.caught = TRUE]
                [] route = "research" -> Emit("topic", "start", 0)
                [] OTHER -> Emit("content", "start", chunks)
    /\ UNCHANGED notSse

\* stream_research_response after its start event: no topic (error event
\* and return), _extract_topic raised (caught by generate_response), or the
\* topic event followed by the full workflow (five progress events) or the
\* paper search (one)
SseTopic(outcome) ==
    /\ sse.pc = "topic"
    /\ sse' = CASE outcome = "no_topic" -> Emit("finally", "error", 0)
                [] outcome = "raise" ->
                     [Emit("finally", "error", 0) EXCEPT !.caught = TRUE]
                [] outcome = "full" -> Emit("full", "progress", 5)
                [] OTHER -> Emit("search", "progress", 1)
    /\ UNCHANGED notSse

\* the next event of the loop or block the stream is in
SseYield ==
    /\ sse.pc \in {"content", "full", "search", "paper"}
    /\ sse.left > 0
    /\ sse' = Emit(sse.pc,
                   CASE sse.pc = "content" -> "content"
                     [] sse.pc = "paper" -> "paper"
                     [] OTHER -> "progress",
                   sse.left - 1)
    /\ UNCHANGED notSse

\* the try blocks of stream_full_research and stream_paper_search: the
\* result event, or the error event of their except branch
SseResult(outcome, papers) ==
    /\ sse.pc \in {"full", "search"}
    /\ sse.left = 0
    /\ outcome \in (IF sse.pc = "full" THEN {"success", "partial_success", "error"}
                    ELSE {"success", "error"})
    /\ sse' = IF sse.pc = "search" /\ outcome = "success"
              THEN Emit("paper", outcome, papers)
              ELSE Emit("finally", outcome, 0)
    /\ UNCHANGED notSse

\* building a paper event raised inside the try of stream_paper_search
SsePaperRaise ==
    /\ sse.pc = "paper"
    /\ sse.left > 0
    /\ sse' = Emit("finally", "error", 0)
    /\ UNCHANGED notSse

\* an end marker that is sent only when nothing went wrong
EndEventUnlessError(events) ==
    IF \E i \in 1..Len(events) : events[i] = "error" THEN events
    ELSE Append(events, "end")

\* yield f"data: {json.dumps({'type': 'end'})}\n\n"
EndEvent(events) == Append(events, "end")

\* the inner stream is exhausted: the end marker, and the generator returns
SseEnd ==
    /\ \/ sse.pc = "finally"
       \/ sse.pc \in {"content", "paper"} /\ sse.left = 0
    /\ sse' = [sse EXCEPT !.pc = "closed", !.events = EndEvent(sse.events), !.left = 0]
    /\ UNCHANGED notSse

NextSse ==
    \/ \E found \in BOOLEAN, agent_type \in AgentTypes, tools_used \in BOOLEAN :
          SseOpen(found, agent_type, tools_used)
    \/ \E route \in {"raise", "research", "text"}, chunks \in 0..MaxItems :
          SseDispatch(route, chunks)
    \/ \E outcome \in {"no_topic", "raise", "full", "search"} : SseTopic(outcome)
    \/ SseYield
    \/ \E outcome \in {"success", "partial_success", "error"}, papers \in 0..MaxItems :
          SseResult(outcome, papers)
    \/ SsePaperRaise
    \/ SseEnd

InitStream ==
    /\ sse = NoSse
    /\ st_response = <<>>
    /\ st_words = <<>>
    /\ st_i = 0
    /\ st_events = <<>>
    /\ st_pc = "idle"

NextStream ==
    \/ \E response \in ResponseTexts : StreamStart(response)
    \/ StreamContent
    \/ StreamEnd

(***************************************************************************)
(* Blog store (api/blog_routes.py, database/database.py)                   *)
(***************************************************************************)

\* posts created (ids handed out)
MaxBlogs == 2
\* largest page number and page size requested
MaxPage == 2
MaxPageSize == 2

\* titles and what the two re.sub calls and strip of generate_slug make of
\* their lower-cased text
Titles == {"Hello World", "hello, world!"}
Slugify(title) ==
    CASE title = "Hello World" -> "hello-world"
      [] title = "hello, world!" -> "hello-world"
      [] OTHER -> "untitled"

\* str(uuid.uuid4())[:8]
Suffixes == {"1a2b3c4d"}

\* A slug is the sequence of its "-"-joined parts, so that f"{slug}-{n}"
\* is Append(slug, n) and "post-1" is the same slug however it was made.
generate_slug(title, suffix) == <<Slugify(title), suffix>>

\* slugs a client may supply (NoSlug stands for no slug)
NoSlug == <<>>
SuppliedSlugs == {NoSlug, <<"post">>, <<"post", "1">>}

Digits == <<"1", "2", "3", "4", "5", "6", "7", "8", "9">>

\* the while loop of create_blog_post (blog_routes.py:54-58)
RECURSIVE UniqueFrom(_, _, _, _)
UniqueFrom(slug, original_slug, counter, existing_slugs) ==
    IF slug \in existing_slugs /\ counter <= Len(Digits)
    THEN UniqueFrom(Append(original_slug, Digits[counter]), original_slug,
                    counter + 1, existing_slugs)
    ELSE slug

\* a create that stores the slug without looking at the existing ones
EnsureUniqueSkipped(slug, existing_slugs) == slug

EnsureUnique(slug, existing_slugs) == UniqueFrom(slug, slug, 1, existing_slugs)

ExistingSlugs(store) == {store[i].slug : i \in DOMAIN store}

\* BlogResponse(**post): publishedAt is declared Optional[datetime] with no
\* default, so the key has to be present in the post
BlogResponseOk(post) == post.publishedAt # "absent"

\* POST /api/blog/posts (create_blog_post with BlogRepository.create_blog).
\* publishedAt is "absent" (no such key), "None" or "set" (a datetime);
\* createdAt is the logical time of the call.
CreateBlogPost(title, supplied, published, suffix) ==
    /\ next_blog_id <= MaxBlogs
    /\ LET slug0 == IF supplied = NoSlug THEN generate_slug(title, suffix) ELSE supplied
           slug == EnsureUnique(slug0, ExistingSlugs(blogs_store))
           post == [id |-> next_blog_id, title |-> title, slug |-> slug,
                    published |-> published,
                    publishedAt |-> IF published THEN "set" ELSE "absent",
                    createdAt |-> clock]
       IN blogs_store' =
             [i \in DOMAIN blogs_store \cup {next_blog_id} |->
                 IF i = next_blog_id THEN post ELSE blogs_store[i]]
    /\ next_blog_id' = next_blog_id + 1
    /\ clock' = clock + 1
    /\ UNCHANGED last_list
    /\ UNCHANGED notBlog

\* PUT /api/blog/posts/{blog_id} (update_blog_post with
\* BlogRepository.update_blog on dict(exclude_unset=True)): title and
\* published are each either unset ("unset") or given
UpdateBlogPost(blog_id, title, published) ==
    /\ blog_id \in DOMAIN blogs_store
    /\ LET old == blogs_store[blog_id]
           new == [old EXCEPT
                     !.title = IF title = "unset" THEN old.title ELSE title,
                     !.published = IF published = "unset" THEN old.published
                                   ELSE published = "true",
                     !.publishedAt = IF published = "true" THEN "set" ELSE "None"]
       IN blogs_store' = [blogs_store EXCEPT ![blog_id] = new]
    /\ UNCHANGED <<next_blog_id, clock, last_list>>
    /\ UNCHANGED notBlog

\* DELETE /api/blog/posts/{blog_id}
DeleteBlogPost(blog_id) ==
    /\ blog_id \in DOMAIN blogs_store
    /\ blogs_store' = [i \in DOMAIN blogs_store \ {blog_id} |-> blogs_store[i]]
    /\ UNCHANGED <<next_blog_id, clock, last_list>>
    /\ UNCHANGED notBlog

\* blogs_store.values(): insertion order, which is id order
RECURSIVE ValuesFrom(_, _)
ValuesFrom(store, i) ==
    IF i >= next_blog_id THEN <<>>
    ELSE IF i \in DOMAIN store THEN <<i>> \o ValuesFrom(store, i + 1)
    ELSE ValuesFrom(store, i + 1)

\* the published filter: "none" keeps every post
Filtered(store, published) ==
    SelectSeq(ValuesFrom(store, 1),
              LAMBDA i : published = "none" \/ store[i].published = (published = "true"))

\* title order of the model's titles (str comparison)
TitleRank(title) ==
    CASE title = "Hello World" -> 1
      [] title = "hello, world!" -> 2
      [] OTHER -> 3

SortKey(store, i, sortBy) ==
    IF sortBy = "title" THEN TitleRank(store[i].title) ELSE store[i].createdAt

\* list.sort(key=..., reverse=...): stable, also when reversed
RECURSIVE Insert(_, _, _, _, _)
Insert(sorted, i, store, sortBy, reverse) ==
    IF sorted = <<>> THEN <<i>>
    ELSE LET last == sorted[Len(sorted)]
             before == IF reverse
                       THEN SortKey(store, i, sortBy) > SortKey(store, last, sortBy)
                       ELSE SortKey(store, i, sortBy) < SortKey(store, last, sortBy)
         IN IF before
            THEN Append(Insert(SubSeq(sorted, 1, Len(sorted) - 1), i, store, sortBy, reverse),
                        last)
            ELSE Append(sorted, i)

RECURSIVE SortFrom(_, _, _, _, _)
SortFrom(seq, k, store, sortBy, reverse) ==
    IF k = 0 THEN <<>>
    ELSE Insert(SortFrom(seq, k - 1, store, sortBy, reverse), seq[k], store, sortBy, reverse)

FilteredSorted(store, published, sortBy, sortOrder) ==
    LET f == Filtered(store, published)
    IN SortFrom(f, Len(f), store, sortBy, sortOrder = "desc")

\* math.ceil(total / pageSize)
Ceil(total, pageSize) == (total + pageSize - 1) \div pageSize

\* list[start:end] for 0 <= start <= end
Slice(list, start, end) ==
    IF start >= Len(list) THEN <<>>
    ELSE SubSeq(list, start + 1, IF end > Len(list) THEN Len(list) ELSE end)

start_idx(page, pageSize) == (page - 1) * pageSize

\* the pagination block of get_blog_posts (blog_routes.py:136-141)
Paginate(list, page, pageSize) ==
    [total |-> Len(list),
     totalPages |-> Ceil(Len(list), pageSize),
     blogs |-> Slice(list, start_idx(page, pageSize), start_idx(page, pageSize) + pageSize)]

NoList ==
    [status |-> 0, list |-> <<>>, page |-> 1, pageSize |-> 1, total |-> 0,
     totalPages |-> 0, blogs |-> <<>>]

\* GET /api/blog/posts (get_blog_posts): status 500 stands for the
\* exception raised while the page is converted to BlogResponse objects
GetBlogPosts(published, sortBy, sortOrder, page, pageSize) ==
    /\ LET list == FilteredSorted(blogs_store, published, sortBy, sortOrder)
           pg == Paginate(list, page, pageSize)
           ok == \A k \in 1..Len(pg.blogs) : BlogResponseOk(blogs_store[pg.blogs[k]])
       IN last_list' =
             IF ok
             THEN [status |-> 200, list |-> list, page |-> page, pageSize |-> pageSize,
                   total |-> pg.total, totalPages |-> pg.totalPages, blogs |-> pg.blogs]
             ELSE [status |-> 500, list |-> list, page |-> page, pageSize |-> pageSize,
                   total |-> 0, totalPages |-> 0, blogs |-> <<>>]
    /\ UNCHANGED <<blogs_store, next_blog_id, clock>>
    /\ UNCHANGED notBlog

\* search texts, and whether the lower-cased text is part of the lower-cased
\* "title excerpt content" of a post with that title (the excerpt and the
\* content of the model's posts contain none of them)
Queries == {"hello", "HELLO W", "world!", "agents"}
Matches(q, title) ==
    CASE q = "hello" -> title \in {"Hello World", "hello, world!"}
      [] q = "HELLO W" -> title = "Hello World"
      [] q = "world!" -> title = "hello, world!"
      [] OTHER -> FALSE

\* the body of get_blog_posts as a function of its arguments.  published is
\* "true", "false", "none" (None) or "Query", the fastapi Query(...) object a
\* direct Python call leaves in a parameter that is not passed: it is not
\* None and equals no post's published flag, so no post passes the filter;
\* a Query object in sortOrder is not "desc"
ListBlogs(store, q, published, sortBy, sortOrder, page, pageSize) ==
    LET f == SelectSeq(ValuesFrom(store, 1),
                       LAMBDA i :
                           /\ \/ published = "none"
                              \/ /\ published \in {"true", "false"}
                                 /\ store[i].published = (published = "true")
                           /\ Matches(q, store[i].title))
        list == SortFrom(f, Len(f), store, sortBy, sortOrder = "desc")
        pg == Paginate(list, page, pageSize)
        ok == \A k \in 1..Len(pg.blogs) : BlogResponseOk(store[pg.blogs[k]])
    IN IF ok
       THEN [status |-> 200, list |-> list, page |-> page, pageSize |-> pageSize,
             total |-> pg.total, totalPages |-> pg.totalPages, blogs |-> pg.blogs]
       ELSE [status |-> 500, list |-> list, page |-> page, pageSize |-> pageSize,
             total |-> 0, totalPages |-> 0, blogs |-> <<>>]

\* GET /api/blog/search (search_blogs):
\* `return await get_blog_posts(q=q, page=page, pageSize=pageSize)`
SearchBlogs(q, page, pageSize) ==
    /\ last_list' =
          [op |-> "search", q |-> q,
           resp |-> ListBlogs(blogs_store, q, "Query", "Query", "Query", page, pageSize)]
    /\ UNCHANGED <<blogs_store, next_blog_id, clock>>
    /\ UNCHANGED notBlog

NextBlogSearch ==
    \/ \E title \in Titles, published \in BOOLEAN, suffix \in Suffixes :
          CreateBlogPost(title, NoSlug, published, suffix)
    \/ \E b \in 1..MaxBlogs : DeleteBlogPost(b)
    \/ \E q \in Queries, page \in 1..MaxPage, pageSize \in 1..MaxPageSize :
          SearchBlogs(q, page, pageSize)

\* create_blog_post as the event loop runs it: a request runs up to
\* `await repo.create_blog(...)`, where other requests may run, and then from
\* the await to its return without another await.
CreateRequests == 1..MaxBlogs

NoCreate ==
    [pc |-> "idle", title |-> "", slug |-> NoSlug, published |-> FALSE,
     publishedAt |-> "absent", createdAt |-> 0, id |-> 0, status |-> 0]

\* BlogRepository.create_blog(blog_data.dict()): the slug is generated when
\* none was supplied and the timestamps are taken
CreateBlogAwait(r, title, supplied, published, suffix) ==
    /\ creating[r].pc = "idle"
    /\ creating' =
          [creating EXCEPT ![r] =
              [pc |-> "awaited", title |-> title,
               slug |-> IF supplied = NoSlug THEN generate_slug(title, suffix)
                         ELSE supplied,
               published |-> published,
               publishedAt |-> IF published THEN "set" ELSE "absent",
               createdAt |-> clock, id |-> 0, status |-> 0]]
    /\ clock' = clock + 1
    /\ UNCHANGED <<blogs_store, next_blog_id, last_list>>
    /\ UNCHANGED notBlogStore

\* a counter that is not advanced
NextIdAfterStoreKept(id) == id

\* next_blog_id += 1
NextIdAfterStore(id) == id + 1

\* create_blog_post from the line after the await to its return
CreateBlogResume(r) ==
    /\ creating[r].pc = "awaited"
    /\ LET data == creating[r]
           slug == EnsureUnique(data.slug, ExistingSlugs(blogs_store))
           post == [id |-> next_blog_id, title |-> data.title, slug |-> slug,
                    published |-> data.published, publishedAt |-> data.publishedAt,
                    createdAt |-> data.createdAt]
       IN /\ blogs_store' =
                [i \in DOMAIN blogs_store \cup {next_blog_id} |->
                    IF i = next_blog_id THEN post ELSE blogs_store[i]]
          /\ creating' =
                [creating EXCEPT ![r] =
                    [data EXCEPT !.pc = "done", !.slug = slug, !.id = next_blog_id,
                                 !.status = IF BlogResponseOk(post) THEN 200 ELSE 400]]
    /\ next_blog_id' = NextIdAfterStore(next_blog_id)
    /\ UNCHANGED <<clock, last_list>>
    /\ UNCHANGED notBlogStore

InitBlog ==
    /\ blogs_store = <<>>
    /\ next_blog_id = 1
    /\ clock = 1
    /\ last_list = NoList
    /\ creating = [r \in CreateRequests |-> NoCreate]

NextBlogRace ==
    \/ \E r \in CreateRequests, title \in Titles, supplied \in SuppliedSlugs,
          published \in BOOLEAN, suffix \in Suffixes :
             CreateBlogAwait(r, title, supplied, published, suffix)
    \/ \E r \in CreateRequests : CreateBlogResume(r)

NextBlog ==
    \/ \E title \in Titles, supplied \in SuppliedSlugs, published \in BOOLEAN,
          suffix \in Suffixes : CreateBlogPost(title, supplied, published, suffix)
    \/ \E b \in 1..MaxBlogs, title \in {"unset", "Hello World"},
          published \in {"unset", "true", "false"} : UpdateBlogPost(b, title, published)
    \/ \E b \in 1..MaxBlogs : DeleteBlogPost(b)

\* the listing endpoint over stores built from posts with generated slugs
SortOptions == {<<"createdAt", "desc">>, <<"createdAt", "asc">>, <<"title", "asc">>}

NextBlogList ==
    \/ \E title \in Titles, published \in BOOLEAN, suffix \in Suffixes :
          CreateBlogPost(title, NoSlug, published, suffix)
    \/ \E b \in 1..MaxBlogs : DeleteBlogPost(b)
    \/ \E published \in {"true", "false", "none"}, sort \in SortOptions,
          page \in 1..MaxPage, pageSize \in 1..MaxPageSize :
             GetBlogPosts(published, sort[1], sort[2], page, pageSize)

(***************************************************************************)
(* Specifications                                                          *)
(***************************************************************************)

Init ==
    InitChat /\ InitResearch /\ InitTools /\ InitBlog /\ InitRender /\ InitStream

SpecChat == Init /\ [][NextChat]_vars
SpecChatSteps == Init /\ [][NextChatSteps]_vars
SpecResearch == Init /\ [][NextResearch]_vars
\* workflow.invoke runs the nodes one after the other in the calling thread,
\* every node returns (its retry loops are bounded and its sleeps finite),
\* and research() then builds its result: a started invocation keeps going
ResearchProgress ==
    \/ \E outs \in CallPatterns, entries \in EntryLists : SearchPapersNode(outs, entries)
    \/ \E ins \in [1..max_papers -> PaperInputs] : AnalyzePapersNode(ins)
    \/ \E outs \in CallPatterns : IdentifyGapsNode(outs)
    \/ \E outs1 \in CallPatterns, outs2 \in CallPatterns,
          content1 \in Contents, content2 \in Contents :
             GeneratePaperNode(outs1, content1, outs2, content2)
    \/ \E outcome \in RenderOutcomes : CreatePdfNode(outcome)
    \/ ResearchReturn
SpecResearchFair == SpecResearch /\ WF_vars(ResearchProgress)
SpecRetry == Init /\ [][NextRetry]_vars
SpecRender == Init /\ [][NextRender]_vars
SpecTools == Init /\ [][NextTools]_vars
SpecAgents == Init /\ [][NextAgents]_vars
SpecStream == Init /\ [][NextStream]_vars
SpecSse == Init /\ [][NextSse]_vars
SpecSseFair == SpecSse /\ WF_vars(NextSse)
SpecBlog == Init /\ [][NextBlog]_vars
SpecBlogSearch == Init /\ [][NextBlogSearch]_vars
SpecBlogRace == Init /\ [][NextBlogRace]_vars
SpecBlogList == Init /\ [][NextBlogList]_vars

(***************************************************************************)
(* Properties                                                              *)
(***************************************************************************)

\* C1: whatever the goal and the LLM responses (never "yes", action "none"
\* or unknown, failed calls), chat runs at most max_steps (8) loop
\* iterations and requests at most max_steps next-action responses; the
\* maximum-steps message is returned only after max_steps iterations, and a
\* loop that has used up its steps returns that message without another
\* LLM request.
C1_ChatWithinMaxSteps ==
    /\ [](/\ step_count <= max_steps
          /\ llm_calls <= max_steps
          /\ Len(step_history) <= max_steps
          /\ (chat_ret = "max_steps_message"
                 => chat_pc = "done" /\ step_count = max_steps))
    /\ [][(chat_pc = "loop" /\ step_count >= max_steps)
            => /\ chat_pc' = "done"
               /\ chat_ret' = "max_steps_message"
               /\ llm_calls' = llm_calls]_vars

\* a chat that ran eight steps without an exit, with a "none" step, an
\* unknown action and a failed tool among them
C1_Witness ==
    /\ chat_pc = "done"
    /\ chat_ret = "max_steps_message"
    /\ llm_calls = max_steps
    /\ \E i \in 1..Len(step_history) : step_history[i].action = "none"
    /\ \E i \in 1..Len(step_history) : step_history[i].action = "fly_to_moon"
    /\ \E i \in 1..Len(step_history) : step_history[i].result = "tool_failed_text"

\* C2: api_call_count never exceeds max_api_calls, in every reachable state
\* of the agent and in the api_calls_made value research() returns, over
\* repeated research() invocations and every pattern of successes,
\* ResourceExhausted failures and other failures.
C2_ApiCallsWithinQuota ==
    /\ api_call_count <= max_api_calls
    /\ rstate.api_call_count <= max_api_calls
    /\ r_result.api_calls_made <= max_api_calls

\* a second research() invocation returned with the quota used up
C2_Witness ==
    /\ r_result.returned
    /\ r_runs >= 2
    /\ max_api_calls >= 3
    /\ api_call_count = max_api_calls
    /\ r_result.api_calls_made = max_api_calls

\* C9: every research() invocation runs search_papers, analyze_papers,
\* identify_gaps, generate_paper and create_pdf once each in that order:
\* the nodes run so far are always a prefix of that order, whatever failed
\* inside a node, and research() returns only after all five have run.
C9_FiveStagesInOrder ==
    /\ Len(r_trace) <= Len(StageOrder)
    /\ \A i \in 1..Len(r_trace) : r_trace[i] = StageOrder[i]
    /\ r_pc \in {"END", "end"} => r_trace = StageOrder
    /\ r_result.returned => r_trace = StageOrder

\* an invocation that found nothing to analyze, fell back to the default
\* paper and failed to render still ran all five stages
C9_Witness ==
    /\ r_result.returned
    /\ r_trace = StageOrder
    /\ rstate.papers # <<>>
    /\ rstate.paper_analyses = <<>>
    /\ rstate.research_proposal = "default_template"
    /\ rstate.final_pdf_path = ""

\* C10 as stated: step_count goes from 0 to 5 and is 5 (reported as
\* steps_completed) when research() returns.
C10_StepCountReachesFive ==
    /\ rstate.step_count \in 0..5
    /\ r_pc \in {"END", "end"} => rstate.step_count = 5
    /\ r_result.returned => r_result.steps_completed = 5

\* C10 amended: step_count starts at 0, never decreases from one stage to
\* the next and never exceeds the number of stages run; research() reports
\* steps_completed 4 or 5, and 5 exactly when the PDF stage succeeded
\* (workflow_completed).
C10_StepCountMonotone ==
    /\ [][r_pc' # "search_papers" => rstate'.step_count >= rstate.step_count]_vars
    /\ [][r_pc' = "search_papers" => rstate'.step_count = 0]_vars
    /\ [](/\ rstate.step_count \in 0..5
          /\ rstate.step_count <= Len(r_trace)
          /\ (r_result.returned =>
                /\ r_result.steps_completed \in {4, 5}
                /\ (r_result.steps_completed = 5 <=> r_result.workflow_completed)))

\* an invocation whose render failed returns steps_completed 4
C10_Witness ==
    /\ r_result.returned
    /\ r_result.steps_completed = 4
    /\ ~r_result.workflow_completed
    /\ r_trace = StageOrder

\* C11: once api_call_count has reached max_api_calls, _retry_with_backoff
\* raises "API call limit reached" before its first attempt, whatever the
\* wrapped function would do, and leaves the counter alone; a generate_paper
\* stage entered in that situation stores the default template as
\* research_proposal and hands over to create_pdf; and every stage entered
\* with the quota used up is followed by the return of research() after all
\* five stages.
C11_QuotaDegradesToTemplate ==
    /\ [](api_call_count >= max_api_calls
            => \A outs \in CallPatterns :
                  LET r == retry_with_backoff(api_call_count, max_api_calls, outs)
                  IN /\ r.result = "limit_reached"
                     /\ r.attempts = 0
                     /\ r.count = api_call_count)
    /\ [][(r_pc = "generate_paper" /\ api_call_count >= max_api_calls)
            => /\ rstate'.research_proposal = "default_template"
               /\ rstate'.current_step = "paper_generated"
               /\ r_pc' = "create_pdf"
               /\ api_call_count' = api_call_count]_vars
    /\ ((r_pc \in {StageOrder[i] : i \in 1..Len(StageOrder)}
           /\ api_call_count >= max_api_calls)
          ~> (r_pc = "end" /\ r_result.returned /\ r_trace = StageOrder))

\* an agent with a quota of one call whose search used it: the later stages
\* all ran at the quota, the proposal is the default template and research()
\* returned
C11_Witness ==
    /\ max_api_calls = 1
    /\ rstate.papers # <<>>
    /\ r_pc = "end"
    /\ r_result.returned
    /\ r_result.api_calls_made = 1
    /\ rstate.research_proposal = "default_template"
    /\ r_trace = StageOrder

\* the last iteration parsed a response and its entry ends step_history
ParsedStep == last_step.kind = "parsed" /\ Len(step_history) > 0
LastEntry == step_history[Len(step_history)]
HistoryBefore == SubSeq(step_history, 1, Len(step_history) - 1)
SaidYes == last_step.resp.goal_completed \in {"yes", "YES"}
SearchEntries ==
    {i \in 1..Len(step_history) :
        /\ step_history[i].action \in {"search_web", "search_news"}
        /\ step_history[i].result # None}

\* C13: when the request for the next action fails, chat is over with the
\* fixed error string: the iteration executed no tool and appended no entry
\* (step_history is one entry short of step_count and is the history the
\* iteration started with), the failed request was the last one, and the
\* only thing that can follow is a new chat.
C13_LLMFailureAbortsStep ==
    /\ [](last_step.kind = "llm_failed"
            => /\ chat_pc = "done"
               /\ chat_ret = "error_thinking"
               /\ last_step.ran = <<>>
               /\ Len(step_history) = step_count - 1
               /\ llm_calls = step_count)
    /\ [][(last_step.kind # "llm_failed" /\ last_step'.kind = "llm_failed")
            => /\ step_history' = step_history
               /\ llm_calls' = llm_calls + 1]_vars
    /\ [][last_step.kind = "llm_failed"
            => /\ llm_calls' = 0
               /\ step_history' = <<>>
               /\ last_step'.kind = "none"]_vars

\* the request of the third iteration failed after two recorded steps
C13_Witness ==
    /\ last_step.kind = "llm_failed"
    /\ chat_ret = "error_thinking"
    /\ step_count = 3
    /\ Len(step_history) = 2

\* C14: when the tool of a step raises, chat goes on normally: the failure
\* text is the result recorded for the step, the tool was called exactly
\* once in the step, and the step ends by the usual exit checks (return of
\* the answer on "yes", return of the analysis when a search step is in the
\* history, otherwise the next iteration or the maximum-steps message).
C14_ToolFailureReportedInline ==
    (ParsedStep /\ LastEntry.result = "tool_failed_text")
      => /\ last_step.ran = <<LastEntry.action>>
         /\ Len(step_history) = step_count
         /\ LastEntry.step = step_count
         /\ IF SaidYes
            THEN /\ chat_pc = "done"
                 /\ chat_ret \in {"final_answer", "goal_completed_default",
                                  "detailed_final_answer",
                                  "detailed_goal_completed_default"}
            ELSE IF SearchEntries # {}
            THEN /\ chat_pc = "done"
                 /\ chat_ret \in {"llm_analysis", "detailed_based_on_search_results"}
            ELSE \/ chat_pc = "loop" /\ chat_ret = None
                 \/ /\ chat_pc = "done"
                    /\ chat_ret = "max_steps_message"
                    /\ step_count = max_steps

\* get_weather failed in the second step and the loop goes on
C14_Witness ==
    /\ ParsedStep
    /\ step_count = 2
    /\ LastEntry.action = "get_weather"
    /\ LastEntry.result = "tool_failed_text"
    /\ last_step.ran = <<"get_weather">>
    /\ chat_pc = "loop"

\* the answer chat returns for a parsed Final Answer field
ParsedAnswer ==
    IF last_step.resp.final_answer = "absent"
    THEN "goal_completed_default" ELSE "final_answer"

\* what a step with Goal Completed "yes" did before it returned: the tool
\* named by the action was executed once and recorded with its result, an
\* action that names no tool was recorded as it is
YesStepRecorded ==
    /\ chat_pc = "done"
    /\ Len(step_history) = step_count
    /\ IF last_step.resp.action \in SimulatedTools
       THEN /\ last_step.ran = <<LastEntry.action>>
            /\ LastEntry.result # None
       ELSE /\ last_step.ran = <<>>
            /\ LastEntry.action = last_step.resp.action
            /\ LastEntry.result = None

C16_SearchForcesCompletion ==
    /\ (ParsedStep /\ ~SaidYes /\ SearchEntries # {})
         => /\ chat_pc = "done"
            /\ Len(step_history) = step_count
            /\ chat_ret \in {"llm_analysis", "detailed_based_on_search_results"}
    /\ \A i \in SearchEntries : i = Len(step_history) /\ chat_pc = "done"
    /\ chat_ret = "max_steps_message" => SearchEntries = {}

\* a headlines chat whose second step ran search_news without "yes"
C16_Witness ==
    /\ ParsedStep
    /\ ~SaidYes
    /\ step_count = 2
    /\ LastEntry.action = "search_news"
    /\ LastEntry.result = "tool_text"
    /\ chat_pc = "done"
    /\ chat_ret = "llm_analysis"

\* C17: when the proposed action is a registered tool that fails
\* _validate_action_choice for the goal and the history the step started
\* with, the proposed tool is not executed in the step; the one tool
\* executed is _get_correct_action(goal), and it is the action the step
\* records, together with its result.
C17_InvalidActionReplaced ==
    (/\ ParsedStep
     /\ last_step.resp.action \in SimulatedTools
     /\ ~validate_action_choice(last_step.resp.action, goal, HistoryBefore))
      => /\ last_step.ran = <<get_correct_action(goal)>>
         /\ \A i \in 1..Len(last_step.ran) : last_step.ran[i] # last_step.resp.action
         /\ LastEntry.action = get_correct_action(goal)
         /\ LastEntry.action # last_step.resp.action
         /\ LastEntry.result # None

\* analyze_weather proposed for a weather goal before any get_weather step:
\* get_weather is executed and recorded instead
C17_Witness ==
    /\ ParsedStep
    /\ goal.w4
    /\ last_step.resp.action = "analyze_weather"
    /\ \A i \in 1..Len(HistoryBefore) : HistoryBefore[i].action # "get_weather"
    /\ last_step.ran = <<"get_weather">>
    /\ LastEntry.action = "get_weather"

C19_CreateSucceedsForEveryType ==
    (last_req.op = "create" /\ last_req.env_ok)
      => /\ last_req.status = 200
         /\ last_req.agent \in DOMAIN agents_store
         /\ last_req.agent \in DOMAIN agent_metadata
         /\ agent_metadata[last_req.agent].agent_type = last_req.agent_type
         /\ agent_metadata[last_req.agent].owner_id = last_req.user

\* the words of a text counted by their first characters
WordStarts(text) ==
    Cardinality({p \in 1..Len(text) :
                    /\ text[p] \notin Whitespace
                    /\ (p = 1 \/ text[p - 1] \in Whitespace)})

\* a text with its outer whitespace removed and every inner run of
\* whitespace replaced by one space
RECURSIVE NormalizedFrom(_, _, _, _)
NormalizedFrom(text, p, out, gap) ==
    IF p > Len(text) THEN out
    ELSE IF text[p] \in Whitespace
    THEN NormalizedFrom(text, p + 1, out, out # <<>>)
    ELSE NormalizedFrom(text, p + 1,
                        (IF gap THEN Append(out, " ") ELSE out) \o <<text[p]>>, FALSE)

Normalized(text) == NormalizedFrom(text, 1, <<>>, FALSE)

\* the content fields of events[k..] one after the other
RECURSIVE ContentFrom(_, _)
ContentFrom(events, k) ==
    IF k > Len(events) THEN <<>>
    ELSE events[k].content \o ContentFrom(events, k + 1)

IsPrefix(a, b) == Len(a) <= Len(b) /\ a = SubSeq(b, 1, Len(a))

\* C20: stream_text_response yields one start event, first, and then only
\* content events; every content chunk carries between one and five words;
\* the content fields yielded so far, concatenated, are the beginning of the
\* response's words joined by single spaces; and when the generator is
\* exhausted it has yielded ceil(n / 5) content events for a response of n
\* words, whose concatenation is exactly those words joined by single spaces.
C20_StreamChunksWords ==
    st_pc # "idle" =>
        LET n == WordStarts(st_response)
            streamed == ContentFrom(st_events, 2)
        IN /\ Len(st_events) >= 1
           /\ st_events[1].type = "start"
           /\ \A k \in 2..Len(st_events) :
                 /\ st_events[k].type = "content"
                 /\ WordStarts(st_events[k].content) \in 1..5
           /\ IsPrefix(streamed, Normalized(st_response))
           /\ st_pc = "done"
                 => /\ Len(st_events) - 1 = (n + 4) \div 5
                    /\ streamed = Normalized(st_response)

\* eleven words with whitespace before them and two characters between
\* them, streamed to the end in three chunks
C20_Witness ==
    /\ st_pc = "done"
    /\ WordStarts(st_response) = 11
    /\ st_response[1] = " "
    /\ st_response[3] = " " /\ st_response[4] = "\n"
    /\ Len(st_events) = 4
    /\ WordStarts(st_events[4].content) = 1

\* C12: render_latex_pdf writes the .tex source before any compiler runs,
\* runs Tectonic first when it is available, runs pdflatex only if Tectonic
\* is unavailable or wrote no PDF, returns the .tex path only if neither
\* compiler wrote the PDF, and returns the .pdf path exactly when a compiler
\* wrote the PDF file in this call.
C12_RenderFallbackOrder ==
    last_render.called =>
        LET log == last_render.log
            env == last_render.env
            ran(c) == \E i \in 1..Len(log) : log[i] = c
        IN /\ (ran("tectonic") \/ ran("pdflatex")) => log[1] = "write_tex"
           /\ (env.tectonic # "absent" /\ Len(log) > 0) => log[2] = "tectonic"
           /\ ran("pdflatex") => "tectonic" \notin last_render.made
           /\ last_render.ret = TexFile(last_render.ts) => last_render.made = {}
           /\ last_render.ret = PdfFile(last_render.ts) <=> last_render.made # {}

\* C3: register_tool on a function body with an `import os` statement, a
\* call to eval(...) or a call to open(...), and no extra allowed imports,
\* ends with HTTP 400 and leaves the registry as it was; no registered tool
\* ever holds such a body.
C3_DisallowedCodeRejected ==
    /\ [](\A n \in DOMAIN tools :
             tools[n].func \notin {"import_os", "eval_call", "open_call"})
    /\ [][(/\ last_reg' # last_reg
            /\ last_reg'.stage \notin {"lookup_agent", "ownership"}
            /\ last_reg'.sub.code \in {"import_os", "eval_call", "open_call"}
            /\ last_reg'.sub.allowed_imports = {})
           => (last_reg'.status = 400 /\ tools' = tools)]_vars

\* the registry refused a body with `import os`
C3_Witness ==
    /\ last_reg.op = "registry"
    /\ last_reg.sub.code = "import_os"
    /\ last_reg.status = 400
    /\ last_reg.sub.name \notin DOMAIN tools

\* C6: exec() only ever receives a submission for which ToolSchema and
\* validate_code both completed without raising; a request that ended in
\* either validation step did not hand that submission to exec().
C6_ExecOnlyAfterValidation ==
    /\ \A sub \in execd :
          /\ ToolSchemaValid(sub)
          /\ validate_code(Codes[sub.code], sub.allowed_imports) = "True"
    /\ last_reg.stage \in {"schema", "validate_code"} => last_reg.sub \notin execd

\* a submission stopped by validate_code and never executed
C6_Witness ==
    /\ last_reg.op = "endpoint"
    /\ last_reg.stage = "validate_code"
    /\ last_reg.sub.code = "eval_call"
    /\ last_reg.sub \notin execd

\* C7 as stated: registering the documented calculate_sum example succeeds
\* and the registry then holds the tool under its name.
C7_ExampleRegisters ==
    (last_reg.op = "registry" /\ last_reg.sub = CalculateSumExample)
        => (last_reg.status = 200 /\ "calculate_sum" \in DOMAIN tools)

\* C8: POST /agents/{agent_id}/tools by a user who is not the agent's owner
\* (every user, for an agent whose owner_id is None) ends with 403 at the
\* ownership test and changes neither the registry, nor what was executed,
\* nor the agent's tool list; a request that got past the test came from
\* the owner.
C8_OnlyOwnerRegisters ==
    [][(/\ last_reg' # last_reg
        /\ last_reg'.op = "endpoint"
        /\ last_reg'.agent \in DOMAIN agents_store)
       => IF agent_metadata[last_reg'.agent].owner_id # last_reg'.user
          THEN /\ last_reg'.status = 403
               /\ last_reg'.stage = "ownership"
               /\ tools' = tools
               /\ execd' = execd
               /\ agent_metadata' = agent_metadata
          ELSE last_reg'.status \in {200, 400}]_vars

\* a request against a default agent was refused
C8_Witness ==
    /\ last_reg.op = "endpoint"
    /\ last_reg.status = 403
    /\ last_reg.agent \in DOMAIN agent_metadata
    /\ agent_metadata[last_reg.agent].owner_id = NoOwner
    /\ tools = NoTools

\* C4: after any sequence of creates, updates and deletes the stored posts
\* have pairwise distinct slugs: as many distinct slugs as posts.
C4_SlugsDistinct ==
    Cardinality(ExistingSlugs(blogs_store)) = Cardinality(DOMAIN blogs_store)

\* two stored posts with the same title and generated slug, the second of
\* which took a counter suffix
C4_Witness ==
    \E i, j \in DOMAIN blogs_store :
        /\ i < j
        /\ blogs_store[i].title = blogs_store[j].title
        /\ blogs_store[i].slug = generate_slug(blogs_store[i].title, "1a2b3c4d")
        /\ blogs_store[j].slug = Append(blogs_store[i].slug, "1")

\* C21: when create_blog_post requests interleave at their await points,
\* any two finished requests have stored posts with distinct ids and distinct
\* slugs, both posts are in blogs_store under their ids with the slugs and
\* titles they were given, and next_blog_id is greater than both ids.
C21_ConcurrentCreatesKeepBoth ==
    \A r1, r2 \in CreateRequests :
        (r1 # r2 /\ creating[r1].pc = "done" /\ creating[r2].pc = "done") =>
            /\ creating[r1].id # creating[r2].id
            /\ creating[r1].slug # creating[r2].slug
            /\ \A r \in {r1, r2} :
                  /\ creating[r].id \in DOMAIN blogs_store
                  /\ blogs_store[creating[r].id].slug = creating[r].slug
                  /\ blogs_store[creating[r].id].title = creating[r].title
                  /\ blogs_store[creating[r].id].createdAt = creating[r].createdAt
                  /\ next_blog_id > creating[r].id

\* two requests that asked for the same slug, the one that reached its
\* await first finishing last and taking the counter suffix
C21_Witness ==
    \E r1, r2 \in CreateRequests :
        /\ creating[r1].pc = "done" /\ creating[r2].pc = "done"
        /\ creating[r1].createdAt < creating[r2].createdAt
        /\ creating[r1].id > creating[r2].id
        /\ creating[r2].slug = <<"post">>
        /\ creating[r1].slug = <<"post", "1">>

\* C23: a _retry_with_backoff call returns or raises after at most
\* max_retries (5) invocations of the wrapped function; every invocation but
\* the last raised ResourceExhausted; another exception is propagated from
\* the attempt that raised it, a success is returned from the attempt that
\* succeeded, ResourceExhausted is re-raised after the fifth failed attempt;
\* and api_call_count has grown by exactly the number of invocations made.
C23_RetryBoundedAndCounted ==
    last_retry.called =>
        LET ret == last_retry.ret
            outs == last_retry.outs
            n == ret.attempts
        IN /\ n \in 0..5
           /\ ret.result \in {"ok", "error", "resource_exhausted", "limit_reached"}
           /\ \A i \in 1..(n - 1) : outs[i] = "exhausted"
           /\ ret.result = "ok" => n >= 1 /\ outs[n] = "ok"
           /\ ret.result = "error" => n >= 1 /\ outs[n] = "error"
           /\ ret.result = "resource_exhausted" =>
                 n = 5 /\ \A i \in 1..5 : outs[i] = "exhausted"
           /\ ret.result = "limit_reached" =>
                 /\ last_retry.before + n >= last_retry.limit
                 /\ \A i \in 1..n : outs[i] = "exhausted"
           /\ (n >= 1 /\ outs[n] # "exhausted") => ret.result = outs[n]
           /\ ret.count = last_retry.before + n
           /\ api_call_count = last_retry.before + n

\* five attempts that all raised ResourceExhausted, the fifth re-raised
C23_Witness ==
    /\ last_retry.called
    /\ last_retry.before = 0
    /\ last_retry.ret.result = "resource_exhausted"
    /\ last_retry.ret.attempts = 5
    /\ api_call_count = 5

\* an event stream never carries more than one end event and never an
\* event after it; a closed stream ends with the end event; and when
\* generate_response caught an exception the event before the end event is
\* an error event
EndEventIsLast ==
    LET ev == sse.events
        ends == {i \in 1..Len(ev) : ev[i] = "end"}
    IN /\ Cardinality(ends) <= 1
       /\ \A i \in ends : i = Len(ev)
       /\ (sse.pc = "closed" /\ sse.status = 200) => ends = {Len(ev)} /\ Len(ev) >= 1
       /\ sse.pc # "closed" => ends = {}
       /\ (sse.pc = "closed" /\ sse.caught) =>
             Len(ev) >= 2 /\ ev[Len(ev) - 1] = "error"

\* C25: every event stream of chat_with_agent_stream for an existing agent
\* ends with exactly one end event, which is its last event: at no time does
\* a stream carry a second end event or an event after the end event, every
\* stream that was opened gets its end event, and a stream in which the
\* agent raised has an error event right before the end event.
C25_StreamEndsWithOneEndEvent ==
    /\ []EndEventIsLast
    /\ (sse.pc = "try") ~>
          (sse.pc = "closed" /\ sse.status = 200 /\ sse.events # <<>>
              /\ sse.events[Len(sse.events)] = "end")

\* a paper search whose second paper event raised: start, two progress
\* events, success, one paper, the error event, then the end event
C25_Witness ==
    /\ sse.pc = "closed"
    /\ sse.events = <<"start", "progress", "progress", "success", "paper", "error", "end">>

\* C26: agents_store and agent_metadata always have the same key set, after
\* any sequence of startup, create_agent (succeeding or failing),
\* create_research_agent and delete_agent requests.
C26_StoresHaveSameKeys ==
    DOMAIN agents_store = DOMAIN agent_metadata

\* a default agent was deleted and create_research_agent then stored its
\* fallback agent, an IntelligentToolAgent filed as a researcher
C26_Witness ==
    /\ deleted # {}
    /\ last_req.op = "create_research" /\ last_req.status = 200
    /\ last_req.agent \in DOMAIN agents_store
    /\ agents_store[last_req.agent].agent_type = "intelligent"
    /\ agent_metadata[last_req.agent].agent_type = "researcher"
    /\ agent_metadata[last_req.agent].owner_id = NoOwner

\* C27: every step of step_history with a result records one of the six
\* registered tools, and that tool passes _validate_action_choice for the
\* goal against the history before the step (so a substituted tool passes
\* validation too); analyze_weather is recorded with a result only after an
\* earlier step of the same chat recorded get_weather.
C27_RecordedToolsAreValid ==
    \A i \in 1..Len(step_history) :
        step_history[i].result # None =>
            LET before == SubSeq(step_history, 1, i - 1)
                action == step_history[i].action
            IN /\ action \in {"search_web", "get_weather", "analyze_weather",
                              "check_air_quality", "get_time", "search_news"}
               /\ validate_action_choice(action, goal, before)
               /\ action = "analyze_weather" =>
                     \E j \in 1..(i - 1) : step_history[j].action = "get_weather"

\* a weather chat that recorded get_weather, then analyze_weather, and then
\* had a proposed get_time replaced by get_weather
C27_Witness ==
    /\ Len(step_history) = 3
    /\ step_history[1].action = "get_weather" /\ step_history[1].result # None
    /\ step_history[2].action = "analyze_weather" /\ step_history[2].result # None
    /\ last_step.kind = "parsed" /\ last_step.resp.action = "get_time"
    /\ step_history[3].action = "get_weather" /\ step_history[3].result # None

\* C28: each research() invocation accounts for its own calls: it is entered
\* with no call counted against the agent's budget, and the api_calls_made it
\* returns is the number of counted call attempts made since it was entered.
C28_EachRunCountsItsOwnCalls ==
    /\ r_pc \notin {"new", "idle"} => r_base = 0
    /\ r_result.returned => r_result.api_calls_made = api_call_count - r_base

\* C29: a register_tool call that fails, at whichever stage, leaves the
\* registry exactly as it was: the same tool names, and under each name the
\* same callable, schema and allowed imports as before the call.
C29_FailedRegistrationKeepsRegistry ==
    [][(/\ last_reg' # last_reg
        /\ last_reg'.stage \in {"schema", "validate_code", "exec", "lookup", "signature"})
       => (/\ last_reg'.status = 400
           /\ tools' = tools
           /\ DOMAIN tools' = DOMAIN tools)]_vars

\* the registry refused a source that does not parse, submitted under the
\* name of the documented example, and holds what it held before
C29_Witness ==
    /\ last_reg.op = "registry"
    /\ last_reg.stage = "validate_code"
    /\ last_reg.sub.code = "bad_syntax"
    /\ last_reg.sub.name = "calculate_sum"
    /\ last_reg.status = 400
    /\ tools = NoTools

\* C30: search_blogs(q, page, pageSize) returns the blogs, total and
\* totalPages that get_blog_posts returns for the same q, page and pageSize
\* with its other parameters at their declared defaults (published = true,
\* sortBy = createdAt, sortOrder = desc).
C30_SearchEqualsDefaultList ==
    "op" \in DOMAIN last_list =>
        LET listed == ListBlogs(blogs_store, last_list.q, "true", "createdAt", "desc",
                                last_list.resp.page, last_list.resp.pageSize)
        IN /\ last_list.resp.status = listed.status
           /\ last_list.resp.blogs = listed.blogs
           /\ last_list.resp.total = listed.total
           /\ last_list.resp.totalPages = listed.totalPages

\* C24: after any sequence of creates and updates every stored post with
\* published = true has a publishedAt timestamp (neither missing nor None).
C24_PublishedHasTimestamp ==
    \A i \in DOMAIN blogs_store :
        blogs_store[i].published => blogs_store[i].publishedAt = "set"

\* C5 as stated: every request to get_blog_posts returns the slice
\* L[(p-1)*s : (p-1)*s + s] of the filtered and sorted list L with
\* total = |L| and totalPages = ceil(|L| / s), empty beyond totalPages.
C5_PageIsSliceOfList ==
    last_list.status # 0 =>
        /\ last_list.status = 200
        /\ last_list.total = Len(last_list.list)
        /\ last_list.totalPages = Ceil(Len(last_list.list), last_list.pageSize)
        /\ last_list.blogs =
              Slice(last_list.list, (last_list.page - 1) * last_list.pageSize,
                    last_list.page * last_list.pageSize)
        /\ (last_list.page > last_list.totalPages => last_list.blogs = <<>>)


====
